---- MODULE Spec2Model ----
(***************************************************************************)
(* A model of the TTML lyric pipeline of applemusic-like-lyrics:           *)
(*   - the time-code decoder        (ttml_parser.rs, parse_ttml_time_to_ms)*)
(*   - the auto word-splitter       (utils.rs)                             *)
(*   - the metadata stripper        (metadata_stripper.rs)                 *)
(*   - the agent recognizer         (agent_recognizer.rs)                  *)
(*   - the parser state machine     (ttml_parser.rs)                       *)
(*   - the orchestrator             (processor.rs)                         *)
(*                                                                         *)
(* Text is modelled as a sequence of characters, each character a TLA+     *)
(* string.  A character outside ASCII is written by a name ("FCOLON" is    *)
(* the full-width colon U+FF1A, "FLP"/"FRP" the full-width parentheses,    *)
(* "zh1".."zh3" three CJK ideographs).                                     *)
(*                                                                         *)
(* Every component has its own specification (SpecTime, SpecSplit, ...):   *)
(* the variables of the other components stay at their idle values.        *)
(***************************************************************************)
EXTENDS Integers, Sequences, FiniteSets, TLC

VARIABLES
    \* --- time-code decoder -------------------------------------------------
    time_in,        \* the shape the attribute value was written from
    time_str,       \* the attribute value handed to parse_ttml_time_to_ms
    time_res,       \* its result: NoResult, or [ok |-> ..., ms |-> ...]
    \* --- auto word-splitter ------------------------------------------------
    split_in,       \* the lines apply_auto_word_splitting was called on
    split_lines,    \* parsed_data.lines
    split_done,     \* whether apply_auto_word_splitting has returned
    \* --- metadata stripper -------------------------------------------------
    strip_opts,     \* the MetadataStripperOptions of the calls
    strip_hist,     \* the line list before the first call and after each call
    \* --- agent recognizer --------------------------------------------------
    agent_opts,     \* the AgentRecognizerOptions of the call
    agent_in,       \* the lines recognize_agents was called on
    agent_lines,    \* the lines it left
    agent_status,   \* "idle", "called", "returned" or "panicked"
    \* --- TTML parser ------------------------------------------------------
    parse_doc,      \* content: the events the XML reader yields, in order
    parse_pos,      \* how many of them the reader has yielded
    parser,         \* TtmlParserState with lines, raw_metadata and warnings
    parse_result,   \* NoResult while parse_ttml runs, then what it returned
    \* --- parse_ttml_for_amll_player ---------------------------------------
    chain_options,  \* the ProcessorChainOptions of the call
    stage,          \* the statement of the function that runs next
    parsed_lines,   \* parsed_data.lines
    duet_map,       \* the map assign_duet_view returned
    passes,         \* the stages that have run, in the order they ran
    chain_result,   \* NoResult while the function runs, then what it returned
    \* --- CONVERTER_CACHE under concurrent convert calls --------------------
    conv_cache,     \* CONVERTER_CACHE: config name -> None or Some(converter)
    conv_lock,      \* per shard of the map, who holds its write and read guards
    conv_pc,        \* per thread, the statement of convert that runs next
    conv_name,      \* per thread, the config_name of its current or last call
    conv_used,      \* per thread, the converter its call converts with
    conv_missed,    \* per thread, whether the call's first lookup missed
    conv_calls,     \* per thread, how many calls have returned
    conv_built,     \* config name -> how many converters were constructed for it
    \* --- ws-protocol: to_body and parse_body ------------------------------
    ws_body,        \* the Body handed to to_body
    ws_bytes,       \* NoResult, then what to_body returned
    ws_parsed,      \* NoResult, then what parse_body returned on those bytes
    \* --- REGEX_CACHE under concurrent get_cached_regex calls ---------------
    re_cache,       \* REGEX_CACHE: (pattern, case_sensitive) -> compiled matcher
    re_lock,        \* the thread that holds the cache's mutex, 0 when free
    re_pc,          \* per thread, the statement of get_cached_regex that runs next
    re_key,         \* per thread, the key of its current or last call
    re_ret,         \* per thread, what its last call returned
    re_calls,       \* per thread, how many calls have returned
    re_compiled,    \* key -> how many times RegexBuilder::build ran for it
    \* --- AMLLWebSocketServer ------------------------------------------------
    srv_handle,     \* server_handle is Some: the listener task runs
    srv_conns,      \* connections: the addresses in the table, each with its protocol
    srv_closing,    \* close() holds the write lock of the table
    srv_closed,     \* close() has completed and reopen() was not called since
    srv_task,       \* per client address, the statement of its accept_conn task
    srv_proto,      \* per client address, the protocol_type its task decided
    srv_events      \* the events emitted to the application, in order

timeVars == <<time_in, time_str, time_res>>
splitVars == <<split_in, split_lines, split_done>>
stripVars == <<strip_opts, strip_hist>>
agentVars == <<agent_opts, agent_in, agent_lines, agent_status>>
parseVars ==
    <<parse_doc, parse_pos, parser, parse_result,
      chain_options, stage, parsed_lines, duet_map, passes, chain_result>>

cacheVars ==
    <<conv_cache, conv_lock, conv_pc, conv_name, conv_used, conv_missed, conv_calls,
      conv_built>>

wsVars == <<ws_body, ws_bytes, ws_parsed>>

regexVars == <<re_cache, re_lock, re_pc, re_key, re_ret, re_calls, re_compiled>>

serverVars ==
    <<srv_handle, srv_conns, srv_closing, srv_closed, srv_task, srv_proto, srv_events>>

vars ==
    <<timeVars, splitVars, stripVars, agentVars, parseVars, cacheVars, wsVars, regexVars,
      serverVars>>

NoResult == [pending |-> TRUE]

(***************************************************************************)
(* Characters and strings                                                  *)
(***************************************************************************)
AsciiDigits == {"0", "1", "2", "3", "4", "5", "6", "7", "8", "9"}

DigitVal(c) ==
    CASE c = "0" -> 0 [] c = "1" -> 1 [] c = "2" -> 2 [] c = "3" -> 3
      [] c = "4" -> 4 [] c = "5" -> 5 [] c = "6" -> 6 [] c = "7" -> 7
      [] c = "8" -> 8 [] c = "9" -> 9 [] OTHER -> 0

\* char::is_ascii_digit
is_ascii_digit(c) == c \in AsciiDigits

Pow10(k) == CASE k = 0 -> 1 [] k = 1 -> 10 [] k = 2 -> 100 [] k = 3 -> 1000
              [] k = 4 -> 10000 [] k = 5 -> 100000 [] OTHER -> 1000000

\* The number a string of ASCII digits denotes.
RECURSIVE DigitsVal(_)
DigitsVal(s) ==
    IF s = <<>> THEN 0
    ELSE 10 * DigitsVal(SubSeq(s, 1, Len(s) - 1)) + DigitVal(s[Len(s)])

AllDigits(s) == \A i \in 1..Len(s) : is_ascii_digit(s[i])

\* str::split(sep): the pieces between the separators (always at least one).
RECURSIVE SplitFrom(_, _, _, _)
SplitFrom(s, sep, i, cur) ==
    IF i > Len(s) THEN <<cur>>
    ELSE IF s[i] = sep THEN <<cur>> \o SplitFrom(s, sep, i + 1, <<>>)
    ELSE SplitFrom(s, sep, i + 1, Append(cur, s[i]))

Split(s, sep) == SplitFrom(s, sep, 1, <<>>)

RECURSIVE Join(_, _)
Join(parts, sep) ==
    IF parts = <<>> THEN <<>>
    ELSE IF Len(parts) = 1 THEN parts[1]
    ELSE parts[1] \o <<sep>> \o Join(Tail(parts), sep)

starts_with(s, c) == Len(s) > 0 /\ s[1] = c
ends_with(s, c) == Len(s) > 0 /\ s[Len(s)] = c

(***************************************************************************)
(* 1. Time-code decoder                                                    *)
(***************************************************************************)
Err == [ok |-> FALSE, ms |-> 0]
Ok(v) == [ok |-> TRUE, ms |-> v]

\* <u64 as FromStr>::from_str: an optional '+', then one or more ASCII digits.
\* A '-' is an invalid digit for an unsigned type.
parse_u64(s) ==
    LET body == IF starts_with(s, "+") THEN Tail(s) ELSE s
    IN  IF body = <<>> \/ ~AllDigits(body) THEN [ok |-> FALSE, val |-> 0]
        ELSE [ok |-> TRUE, val |-> DigitsVal(body)]

\* <f64 as FromStr>::from_str on the characters the model writes (digits,
\* '+', '-', '.', ':' and a letter): an optional sign, then digits with an
\* optional '.' and digits, at least one digit in all.  The value is kept
\* exactly, as the integer part, the fraction's digits and the sign.
parse_f64(s) ==
    LET neg  == starts_with(s, "-")
        body == IF starts_with(s, "-") \/ starts_with(s, "+") THEN Tail(s) ELSE s
        dots == Split(body, ".")
        ip   == dots[1]
        fp   == IF Len(dots) = 2 THEN dots[2] ELSE <<>>
    IN  IF Len(dots) > 2 \/ ~AllDigits(ip) \/ ~AllDigits(fp) \/ (ip = <<>> /\ fp = <<>>)
        THEN [ok |-> FALSE, neg |-> FALSE, int |-> 0, frac |-> <<>>]
        ELSE [ok |-> TRUE, neg |-> neg, int |-> DigitsVal(ip), frac |-> fp]

\* (seconds * 1000.0).round() as u64, for a non-negative value: the nearest
\* integer, a tie away from zero.
SecondsToMsRounded(f) ==
    LET k == Len(f.frac)
    IN  f.int * 1000 + ((2 * DigitsVal(f.frac) * 1000 + Pow10(k)) \div (2 * Pow10(k)))

\* Format 1, "12.345s": the text before the trailing 's' read as a float.
ParseSecondsForm(stripped) ==
    IF stripped = <<>> \/ starts_with(stripped, ".") \/ ends_with(stripped, ".")
    THEN Err
    ELSE LET f == parse_f64(stripped)
         IN  IF ~f.ok THEN Err
             ELSE IF f.neg THEN Err
             ELSE Ok(SecondsToMsRounded(f))

\* The closure parse_ms_part: 1 to 3 ASCII digits, right-padded.
parse_ms_part(ms_str) ==
    IF ms_str = <<>> \/ Len(ms_str) > 3 \/ ~AllDigits(ms_str)
    THEN [ok |-> FALSE, val |-> 0]
    ELSE [ok |-> TRUE, val |-> DigitsVal(ms_str) * Pow10(3 - Len(ms_str))]

\* The seconds component with its optional fraction, "SS" or "SS.mmm".
ParseSecondsPart(part) ==
    LET dot_parts == Split(part, ".")
        secs      == parse_u64(dot_parts[1])
        ms        == IF Len(dot_parts) = 2 THEN parse_ms_part(dot_parts[2])
                     ELSE [ok |-> Len(dot_parts) = 1, val |-> 0]
    IN  IF dot_parts[1] = <<>> \/ ~secs.ok \/ ~ms.ok
        THEN [ok |-> FALSE, seconds |-> 0, milliseconds |-> 0]
        ELSE [ok |-> TRUE, seconds |-> secs.val, milliseconds |-> ms.val]

\* The range check: minutes < 60 always, seconds < 60 when there is more
\* than one colon-separated component.
RangeCheckNoSecondsExemption(nparts, minutes, seconds) ==
    minutes < 60 /\ seconds < 60

RangeCheckOk(nparts, minutes, seconds) ==
    ~(minutes >= 60) /\ ~(nparts > 1 /\ seconds >= 60)

\* Format 2, "HH:MM:SS.mmm", "MM:SS.mmm", "SS.mmm".
ParseColonForm(s) ==
    LET colon_parts == Split(s, ":")
        n   == Len(colon_parts)
        hh  == IF n = 3 THEN parse_u64(colon_parts[1]) ELSE [ok |-> TRUE, val |-> 0]
        mm  == IF n = 3 THEN parse_u64(colon_parts[2])
               ELSE IF n = 2 THEN parse_u64(colon_parts[1])
               ELSE [ok |-> TRUE, val |-> 0]
        sp  == ParseSecondsPart(colon_parts[IF n \in 1..3 THEN n ELSE 1])
    IN  IF n \notin 1..3 THEN Err
        ELSE IF ~hh.ok \/ ~mm.ok \/ ~sp.ok THEN Err
        ELSE IF ~RangeCheckOk(n, mm.val, sp.seconds) THEN Err
        ELSE Ok(hh.val * 3600000 + mm.val * 60000 + sp.seconds * 1000 + sp.milliseconds)

parse_ttml_time_to_ms(s) ==
    IF ends_with(s, "s") THEN ParseSecondsForm(SubSeq(s, 1, Len(s) - 1))
    ELSE ParseColonForm(s)

----------------------------------------------------------------------------
\* The attribute values the decoder is run on: 1 to 4 colon-separated
\* components, an optional fraction, an optional trailing 's'.
MaxFracLen == 4

TimeComponents ==
    { <<>>, <<"0">>, <<"7">>, <<"0", "1">>, <<"5", "9">>, <<"6", "0">>, <<"7", "5">>,
      <<"-", "5">>, <<"a">> }

FracDigitsA == <<"1", "2", "3", "4", "6", "7">>
FracDigitsB == <<"0", "8", "8", "0", "1", "3">>

TimeFractions ==
    { [present |-> FALSE, digits |-> <<>>] }
    \cup { [present |-> TRUE, digits |-> SubSeq(FracDigitsA, 1, k)] : k \in 0..MaxFracLen }
    \cup { [present |-> TRUE, digits |-> SubSeq(FracDigitsB, 1, k)] : k \in 1..MaxFracLen }
    \cup { [present |-> TRUE, digits |-> <<"a">>] }

TimeShapes ==
    { [comps |-> c, frac |-> f, suffix |-> sfx] :
        c \in UNION { [1..n -> TimeComponents] : n \in 1..3 }
               \cup { <<<<"1">>, <<"2">>, <<"3">>, <<"4">>>> },
        f \in TimeFractions,
        sfx \in BOOLEAN }

\* The attribute text of a shape.
RenderTime(shape) ==
    Join(shape.comps, ":")
    \o (IF shape.frac.present THEN <<".">> \o shape.frac.digits ELSE <<>>)
    \o (IF shape.suffix THEN <<"s">> ELSE <<>>)

TimeIdle == time_in = NoResult /\ time_str = <<>> /\ time_res = NoResult
SplitIdle == split_in = <<>> /\ split_lines = <<>> /\ split_done = FALSE
StripIdle == strip_opts = NoResult /\ strip_hist = <<>>
AgentIdle ==
    agent_opts = NoResult /\ agent_in = <<>> /\ agent_lines = <<>> /\ agent_status = "idle"
Threads == {1, 2}
ConfigNames == {"s2t.json", "t2s.json", "s2tw.json"}
Shards == {1, 2}
NoGuards == [writer |-> 0, readers |-> {}]
WsIdle == ws_body = NoResult /\ ws_bytes = NoResult /\ ws_parsed = NoResult
RegexKeys == {<<"a", TRUE>>, <<"a", FALSE>>, <<"(", TRUE>>}
RegexIdle ==
    /\ re_cache = <<>> /\ re_lock = 0
    /\ re_pc = [t \in Threads |-> "idle"]
    /\ re_key = [t \in Threads |-> <<"", TRUE>>]
    /\ re_ret = [t \in Threads |-> <<>>]
    /\ re_calls = [t \in Threads |-> 0]
    /\ re_compiled = [k \in RegexKeys |-> 0]
Addrs == {1, 2}
ServerIdle ==
    /\ srv_handle = FALSE /\ srv_conns = {} /\ srv_closing = FALSE /\ srv_closed = FALSE
    /\ srv_task = [a \in Addrs |-> "none"]
    /\ srv_proto = [a \in Addrs |-> "Unknown"]
    /\ srv_events = <<>>
CacheIdle ==
    /\ conv_cache = [n \in ConfigNames |-> <<>>]
    /\ conv_lock = [s \in Shards |-> NoGuards]
    /\ conv_pc = [t \in Threads |-> "idle"]
    /\ conv_name = [t \in Threads |-> ""]
    /\ conv_used = [t \in Threads |-> <<>>]
    /\ conv_missed = [t \in Threads |-> FALSE]
    /\ conv_calls = [t \in Threads |-> 0]
    /\ conv_built = [n \in ConfigNames |-> 0]
ParseIdle ==
    /\ parse_doc = <<>> /\ parse_pos = 0 /\ parser = NoResult /\ parse_result = NoResult
    /\ chain_options = NoResult /\ stage = "idle" /\ parsed_lines = <<>> /\ duet_map = <<>>
    /\ passes = <<>> /\ chain_result = NoResult

InitTime ==
    /\ time_in \in TimeShapes
    /\ time_str = RenderTime(time_in)
    /\ time_res = NoResult
    /\ SplitIdle /\ StripIdle /\ AgentIdle /\ ParseIdle /\ CacheIdle /\ WsIdle /\ RegexIdle /\ ServerIdle

DecodeTime ==
    /\ time_res = NoResult
    /\ time_res' = parse_ttml_time_to_ms(time_str)
    /\ UNCHANGED <<time_in, time_str>>
    /\ UNCHANGED <<splitVars, stripVars, agentVars, parseVars, cacheVars, wsVars, regexVars,
                 serverVars>>

NextTime == DecodeTime

SpecTime == InitTime /\ [][NextTime]_vars

----------------------------------------------------------------------------
\* What a shape says, read off the shape and not off the string.
CompIsNumber(c) == c # <<>> /\ AllDigits(c)

ShapeInGrammar(sh) ==
    /\ Len(sh.comps) \in 1..3
    /\ sh.suffix => Len(sh.comps) = 1
    /\ \A i \in 1..Len(sh.comps) : CompIsNumber(sh.comps[i])
    /\ sh.frac.present => sh.frac.digits # <<>> /\ AllDigits(sh.frac.digits)

ShapeHours(sh) == IF Len(sh.comps) = 3 THEN DigitsVal(sh.comps[1]) ELSE 0
ShapeMinutes(sh) ==
    IF Len(sh.comps) = 3 THEN DigitsVal(sh.comps[2])
    ELSE IF Len(sh.comps) = 2 THEN DigitsVal(sh.comps[1]) ELSE 0
ShapeSeconds(sh) == DigitsVal(sh.comps[Len(sh.comps)])
ShapeFracLen(sh) == IF sh.frac.present THEN Len(sh.frac.digits) ELSE 0
ShapeFracMs(sh) ==
    IF sh.frac.present THEN DigitsVal(sh.frac.digits) * Pow10(3 - Len(sh.frac.digits)) ELSE 0

ShapeInRange(sh) ==
    /\ ShapeMinutes(sh) < 60
    /\ Len(sh.comps) > 1 => ShapeSeconds(sh) < 60

ShapeValueMs(sh) ==
    ShapeHours(sh) * 3600000 + ShapeMinutes(sh) * 60000 + ShapeSeconds(sh) * 1000
    + ShapeFracMs(sh)

ShapeIsNegative(sh) == \E i \in 1..Len(sh.comps) : starts_with(sh.comps[i], "-")

TimeDecoded == time_res # NoResult

\* C3: for every input of the grammars SS[.f], MM:SS[.f], HH:MM:SS[.f] and
\* <seconds>[.f]s with in-range components the decoder returns
\* hours*3600000 + minutes*60000 + seconds*1000 + the fraction right-padded
\* to three digits, and in every one of these grammars, the trailing-s form
\* included, a fraction of more than 3 digits is an InvalidTime error.
C3_FractionPaddedOrRejected ==
    (TimeDecoded /\ ShapeInGrammar(time_in)) =>
        /\ (ShapeFracLen(time_in) <= 3 /\ ShapeInRange(time_in)) =>
                (time_res.ok /\ time_res.ms = ShapeValueMs(time_in))
        /\ ShapeFracLen(time_in) > 3 => ~time_res.ok

\* C4: the decoder returns Ok only if the minutes component is < 60 and, when
\* the string has more than one colon-separated component, the seconds
\* component is < 60; a bare SS value of 60 or more is accepted as a total
\* second count; every input denoting a negative value fails.
C4_RangeChecks ==
    TimeDecoded =>
        /\ (time_res.ok /\ ShapeInGrammar(time_in)) => ShapeInRange(time_in)
        /\ time_res.ok => Len(time_in.comps) \in 1..3
        /\ ( /\ ShapeInGrammar(time_in)
             /\ Len(time_in.comps) = 1
             /\ ~time_in.suffix
             /\ ShapeFracLen(time_in) <= 3 ) =>
                (time_res.ok /\ time_res.ms = ShapeValueMs(time_in))
        /\ ShapeIsNegative(time_in) => ~time_res.ok

\* A bare seconds count of 75 was decoded to 75000 ms.
C4_Witness ==
    /\ TimeDecoded
    /\ time_in.comps = << <<"7", "5">> >>
    /\ ~time_in.suffix
    /\ ~time_in.frac.present
    /\ time_res = Ok(75000)

(***************************************************************************)
(* 2. Auto word-splitter                                                   *)
(***************************************************************************)
\* Option<T>: None is the empty sequence, Some(x) the one-element sequence.
None == <<>>
Some(x) == <<x>>

WhitespaceChars == {" ", "\n"}
AsciiLetters == {"a", "b", "x", "y", "A", "B", "O", "P", "o", "p"}
\* Characters outside ASCII are written by name: "zh1".."zh3" are CJK lyric
\* characters, "ci" "zuo" "gong" "shi" the characters of the words U+8BCD,
\* U+4F5C U+8BCD and U+5DE5 U+4F5C U+5BA4, "FCOLON" "FLP" "FRP" the full-width
\* colon and parentheses U+FF1A, U+FF08, U+FF09.
CjkChars == {"zh1", "zh2", "zh3", "ci", "zuo", "gong", "shi"}

is_whitespace(c) == c \in WhitespaceChars

get_char_type(c) ==
    IF is_whitespace(c) THEN "Whitespace"
    ELSE IF c \in AsciiLetters THEN "Latin"
    ELSE IF is_ascii_digit(c) THEN "Numeric"
    ELSE IF c \in CjkChars THEN "Cjk"
    ELSE "Other"

\* str::trim, trim_start, trim_end
RECURSIVE trim_start(_)
trim_start(s) ==
    IF s # <<>> /\ is_whitespace(s[1]) THEN trim_start(Tail(s)) ELSE s

RECURSIVE trim_end(_)
trim_end(s) ==
    IF s # <<>> /\ is_whitespace(s[Len(s)]) THEN trim_end(SubSeq(s, 1, Len(s) - 1)) ELSE s

trim(s) == trim_end(trim_start(s))

\* Two neighbouring clusters stay in one token only when both are Latin,
\* both Numeric or both Whitespace.
should_break(last_type, current_type) ==
    ~( \/ (last_type = "Latin" /\ current_type = "Latin")
       \/ (last_type = "Numeric" /\ current_type = "Numeric")
       \/ (last_type = "Whitespace" /\ current_type = "Whitespace") )

\* auto_tokenize: the loop over the grapheme clusters (here: characters),
\* from position i with the tokens pushed so far and the current token.
RECURSIVE TokenizeFrom(_, _, _, _)
TokenizeFrom(text, i, tokens, current_token) ==
    IF i > Len(text)
    THEN IF current_token # <<>> THEN Append(tokens, current_token) ELSE tokens
    ELSE IF /\ i > 1
            /\ should_break(get_char_type(text[i - 1]), get_char_type(text[i]))
            /\ current_token # <<>>
         THEN TokenizeFrom(text, i + 1, Append(tokens, current_token), <<text[i]>>)
         ELSE TokenizeFrom(text, i + 1, tokens, Append(current_token, text[i]))

auto_tokenize(text) ==
    IF text = <<>> THEN <<>> ELSE TokenizeFrom(text, 1, <<>>, <<>>)

\* The punctuation weight apply_auto_word_splitting passes, 0.5, in halves:
\* every weight of the model is twice the weight of the code.
PunctuationWeightHalves == 1

TokenType(token) == get_char_type(token[1])

TokenWeightHalves(token, punctuation_weight) ==
    CASE TokenType(token) \in {"Latin", "Numeric", "Cjk"} -> 2 * Len(token)
      [] TokenType(token) = "Other" -> punctuation_weight
      [] OTHER -> 0

RECURSIVE SumWeights(_, _)
SumWeights(tokens, punctuation_weight) ==
    IF tokens = <<>> THEN 0
    ELSE TokenWeightHalves(tokens[1], punctuation_weight)
         + SumWeights(Tail(tokens), punctuation_weight)

\* tokens.iter().rposition(|t| type of t != Whitespace): 0 when there is none.
last_visible_token_index(tokens) ==
    LET vis == { i \in 1..Len(tokens) : TokenType(tokens[i]) # "Whitespace" }
    IN  IF vis = {} THEN 0 ELSE CHOOSE i \in vis : \A j \in vis : j <= i

\* f64::round of a non-negative quotient num/den: a tie goes away from zero.
\* (accumulated_weight * duration_per_weight is computed here exactly.)
RoundDiv(num, den) == (2 * num + den) \div (2 * den)

saturating_sub(a, b) == IF a >= b THEN a - b ELSE 0

\* current_token_start_ms = token_end_ms, at the end of the loop body.
NextTokenStartStale(token_end_ms, current_token_start_ms) == current_token_start_ms

NextTokenStart(token_end_ms, current_token_start_ms) == token_end_ms

\* The loop of split_line_into_syllables over the tokens.
RECURSIVE SplitLoop(_, _, _, _, _, _, _, _, _)
SplitLoop(tokens, token_idx, start_ms, end_ms, pw, total_weight, accumulated_weight, current_token_start_ms, new_syllables) ==
    IF token_idx > Len(tokens) THEN new_syllables
    ELSE
      LET token == tokens[token_idx] IN
      IF TokenType(token) = "Whitespace"
      THEN SplitLoop(tokens, token_idx + 1, start_ms, end_ms, pw, total_weight,
                     accumulated_weight, current_token_start_ms,
                     IF new_syllables = <<>> THEN new_syllables
                     ELSE [new_syllables EXCEPT ![Len(new_syllables)].ends_with_space = TRUE])
      ELSE
        LET acc == accumulated_weight + TokenWeightHalves(token, pw)
            total_duration == saturating_sub(end_ms, start_ms)
            token_end_ms ==
                IF token_idx = last_visible_token_index(tokens) THEN end_ms
                ELSE start_ms + RoundDiv(acc * total_duration, total_weight)
            syl == [ text |-> token,
                     start_ms |-> current_token_start_ms,
                     end_ms |-> token_end_ms,
                     duration_ms |-> Some(saturating_sub(token_end_ms, current_token_start_ms)),
                     ends_with_space |-> FALSE ]
        IN  SplitLoop(tokens, token_idx + 1, start_ms, end_ms, pw, total_weight, acc,
                      NextTokenStart(token_end_ms, current_token_start_ms),
                      Append(new_syllables, syl))

split_line_into_syllables(line_text, start_ms, end_ms, punctuation_weight) ==
    LET tokens == auto_tokenize(line_text)
        total_weight == SumWeights(tokens, punctuation_weight)
    IN  IF tokens = <<>> THEN <<>>
        ELSE IF total_weight <= 0 THEN <<>>
        ELSE SplitLoop(tokens, 1, start_ms, end_ms, punctuation_weight, total_weight,
                       0, start_ms, <<>>)

\* The condition without the test of the line's duration.
SplitAppliesAnyDuration(line) ==
    /\ Len(line.main_syllables) <= 1
    /\ line.line_text # None
    /\ trim(line.line_text[1]) # <<>>

\* The condition under which apply_auto_word_splitting splits a line.
SplitApplies(line) ==
    /\ Len(line.main_syllables) <= 1
    /\ line.end_ms > line.start_ms
    /\ line.line_text # None
    /\ trim(line.line_text[1]) # <<>>

AutoSplitLine(line) ==
    IF SplitApplies(line)
    THEN LET new_syllables ==
                 split_line_into_syllables(line.line_text[1], line.start_ms, line.end_ms,
                                           PunctuationWeightHalves)
         IN  IF new_syllables # <<>> THEN [line EXCEPT !.main_syllables = new_syllables]
             ELSE line
    ELSE line

apply_auto_word_splitting(lines) == [i \in 1..Len(lines) |-> AutoSplitLine(lines[i])]

----------------------------------------------------------------------------
MaxSplitText == 3

SplitAlphabet == {"a", "1", " ", ",", "zh1"}

SplitTexts == UNION { [1..n -> SplitAlphabet] : n \in 0..MaxSplitText }

\* A syllable as the parser leaves it.
Syl(text, s, e) ==
    [ text |-> text, start_ms |-> s, end_ms |-> e,
      duration_ms |-> Some(saturating_sub(e, s)), ends_with_space |-> FALSE ]

\* A lyric line with the fields the passes read.
Line(text, s, e, syls) ==
    [ start_ms |-> s, end_ms |-> e, line_text |-> text, main_syllables |-> syls,
      translations |-> <<>>, romanizations |-> <<>>, agent |-> Some(<<"v", "1">>),
      background_section |-> None, song_part |-> None, itunes_key |-> None ]

SplitTimes == { <<0, 7>>, <<100, 1100>>, <<3, 10>>, <<5, 5>>, <<10, 3>> }

SplitSyllableLists(text, s, e) ==
    { <<>>, <<Syl(text, s, e)>>, <<Syl(<<"a">>, s, s), Syl(<<"b">>, s, e)>> }

SplitInputLines ==
    UNION { UNION { { Line(Some(t), se[1], se[2], syls) :
                        syls \in SplitSyllableLists(t, se[1], se[2]) } :
                    se \in SplitTimes } : t \in SplitTexts }
    \cup { Line(None, 0, 7, <<>>), Line(None, 0, 7, <<Syl(<<"a">>, 0, 7)>>) }

SplitCompanionLines == { Line(Some(<<"a", " ", "b">>), 0, 9, <<>>), Line(None, 0, 7, <<>>) }

InitSplit ==
    /\ \E l \in SplitInputLines :
          split_in \in { <<l>> } \cup { <<l, c>> : c \in SplitCompanionLines }
    /\ split_lines = split_in
    /\ split_done = FALSE
    /\ TimeIdle /\ StripIdle /\ AgentIdle /\ ParseIdle /\ CacheIdle /\ WsIdle /\ RegexIdle /\ ServerIdle

ApplyAutoWordSplitting ==
    /\ ~split_done
    /\ split_lines' = apply_auto_word_splitting(split_lines)
    /\ split_done' = TRUE
    /\ UNCHANGED split_in
    /\ UNCHANGED <<timeVars, stripVars, agentVars, parseVars, cacheVars, wsVars, regexVars,
                 serverVars>>

NextSplit == ApplyAutoWordSplitting

SpecSplit == InitSplit /\ [][NextSplit]_vars

----------------------------------------------------------------------------
\* The syllables tile [s, e]: the first starts at s, each next one starts
\* where the previous one ends, none ends before it starts, the last ends
\* at e.
Tiles(syls, s, e) ==
    /\ syls # <<>>
    /\ syls[1].start_ms = s
    /\ \A i \in 1..Len(syls) : syls[i].end_ms >= syls[i].start_ms
    /\ \A i \in 1..(Len(syls) - 1) : syls[i + 1].start_ms = syls[i].end_ms
    /\ syls[Len(syls)].end_ms = e

\* C5: for every line with end_ms > start_ms that apply_auto_word_splitting
\* splits, the produced syllables tile [start_ms, end_ms] exactly, and the
\* last syllable ends at exactly end_ms.
C5_SplitTilesLine ==
    split_done =>
        \A i \in 1..Len(split_in) :
            SplitApplies(split_in[i]) =>
                /\ Tiles(split_lines[i].main_syllables, split_in[i].start_ms, split_in[i].end_ms)
                /\ \A k \in 1..Len(split_lines[i].main_syllables) :
                      split_lines[i].main_syllables[k].text # <<>>

\* "a,1" over [0, 7] was split in three syllables, the middle one [3, 4].
C5_Witness ==
    /\ split_done
    /\ split_in[1].line_text = Some(<<"a", ",", "1">>)
    /\ split_in[1].start_ms = 0 /\ split_in[1].end_ms = 7
    /\ Len(split_lines[1].main_syllables) = 3
    /\ split_lines[1].main_syllables[2].start_ms = 3
    /\ split_lines[1].main_syllables[2].end_ms = 4

(***************************************************************************)
(* 3. Metadata stripper                                                    *)
(***************************************************************************)
Lower(c) ==
    CASE c = "A" -> "a" [] c = "B" -> "b" [] c = "O" -> "o" [] c = "P" -> "p"
      [] OTHER -> c

to_lowercase(s) == [i \in 1..Len(s) |-> Lower(s[i])]

\* str::find of a character: the first position holding it, 0 when absent.
Find(s, c) ==
    IF \E i \in 1..Len(s) : s[i] = c
    THEN CHOOSE i \in 1..Len(s) : s[i] = c /\ \A j \in 1..(i - 1) : s[j] # c
    ELSE 0

IsPrefix(p, s) == Len(p) <= Len(s) /\ SubSeq(s, 1, Len(p)) = p

DropFirst(s, n) == SubSeq(s, n + 1, Len(s))

\* The concatenation of the syllable texts of a line.
RECURSIVE SyllableText(_)
SyllableText(syls) ==
    IF syls = <<>> THEN <<>> ELSE syls[1].text \o SyllableText(Tail(syls))

get_plain_text_from_lyric_line(line) ==
    IF line.line_text # None /\ line.line_text[1] # <<>>
    THEN trim(line.line_text[1])
    ELSE trim(SyllableText(line.main_syllables))

line_matches_keyword_rule(line_to_check, prepared_keywords, keyword_case_sensitive) ==
    LET t0 == trim_start(line_to_check)
        text_after_prefix ==
            IF starts_with(t0, "[")
            THEN IF Find(t0, "]") # 0 THEN trim_start(DropFirst(t0, Find(t0, "]"))) ELSE t0
            ELSE IF starts_with(t0, "(") /\ Find(t0, ")") # 0
                 THEN trim_start(DropFirst(t0, Find(t0, ")")))
                 ELSE t0
        prepared_line ==
            IF keyword_case_sensitive THEN text_after_prefix ELSE to_lowercase(text_after_prefix)
    IN  \E k \in 1..Len(prepared_keywords) :
            /\ IsPrefix(prepared_keywords[k], prepared_line)
            /\ LET stripped == trim_start(DropFirst(prepared_line, Len(prepared_keywords[k])))
               IN  starts_with(stripped, ":") \/ starts_with(stripped, "FCOLON")

\* The default keywords that can be a prefix of a text over the characters
\* of this model (the other entries of the list hold a character no modelled
\* text holds).
default_keywords == << <<"zuo", "ci">>, <<"ci">>, <<"O", "P">> >>

\* A pattern is modelled by the literals one of which a matching text must
\* contain; a pattern that does not compile has valid = FALSE.  Of the default
\* patterns only the one for U+5DE5 U+4F5C U+5BA4 can match a modelled text.
Pattern(alts) == [valid |-> TRUE, alts |-> alts]
InvalidPattern == [valid |-> FALSE, alts |-> {}]
default_regex == << Pattern({<<"gong", "zuo", "shi">>}) >>

Contains(text, lit) ==
    \E i \in 1..(Len(text) - Len(lit) + 1) : SubSeq(text, i, i + Len(lit) - 1) = lit

is_match(pattern, text, case_sensitive) ==
    \E lit \in pattern.alts :
        IF case_sensitive THEN Contains(text, lit)
        ELSE Contains(to_lowercase(text), to_lowercase(lit))

Min(a, b) == IF a <= b THEN a ELSE b
Max(a, b) == IF a >= b THEN a ELSE b

HeaderScanLimit == 20
EndLookbackCount == 10

\* The keyword pass with the header searched over the whole list.
KeywordPassWholeHeader(lines, keywords_to_use, keyword_case_sensitive) ==
    LET n == Len(lines)
        prepared_keywords ==
            IF ~keyword_case_sensitive
            THEN [k \in 1..Len(keywords_to_use) |-> to_lowercase(keywords_to_use[k])]
            ELSE keywords_to_use
        matches == [i \in 1..n |->
                      line_matches_keyword_rule(get_plain_text_from_lyric_line(lines[i]),
                                                prepared_keywords, keyword_case_sensitive)]
        hdr == { i \in 1..n : matches[i] }
        first_lyric_line_index ==
            IF hdr = {} THEN 0 ELSE CHOOSE i \in hdr : \A j \in hdr : j <= i
        footer_scan_start_index ==
            Max(saturating_sub(n, EndLookbackCount), first_lyric_line_index)
        runs == { i \in footer_scan_start_index..n : \A j \in (i + 1)..n : matches[j] }
        last_lyric_line_exclusive_index ==
            IF first_lyric_line_index < n
            THEN CHOOSE i \in runs : \A j \in runs : i <= j
            ELSE first_lyric_line_index
    IN  IF first_lyric_line_index < last_lyric_line_exclusive_index
        THEN SubSeq(lines, first_lyric_line_index + 1, last_lyric_line_exclusive_index)
        ELSE IF first_lyric_line_index > 0 \/ last_lyric_line_exclusive_index < n
             THEN <<>>
             ELSE lines

\* The keyword pass; indices first_lyric_line_index and
\* last_lyric_line_exclusive_index are 0-based as in the code.
KeywordPass(lines, keywords_to_use, keyword_case_sensitive) ==
    LET n == Len(lines)
        prepared_keywords ==
            IF ~keyword_case_sensitive
            THEN [k \in 1..Len(keywords_to_use) |-> to_lowercase(keywords_to_use[k])]
            ELSE keywords_to_use
        matches == [i \in 1..n |->
                      line_matches_keyword_rule(get_plain_text_from_lyric_line(lines[i]),
                                                prepared_keywords, keyword_case_sensitive)]
        header_scan_limit == Min(HeaderScanLimit, n)
        hdr == { i \in 1..header_scan_limit : matches[i] }
        first_lyric_line_index ==
            IF hdr = {} THEN 0 ELSE CHOOSE i \in hdr : \A j \in hdr : j <= i
        footer_scan_start_index ==
            Max(saturating_sub(n, EndLookbackCount), first_lyric_line_index)
        runs == { i \in footer_scan_start_index..n : \A j \in (i + 1)..n : matches[j] }
        last_lyric_line_exclusive_index ==
            IF first_lyric_line_index < n
            THEN CHOOSE i \in runs : \A j \in runs : i <= j
            ELSE first_lyric_line_index
    IN  IF first_lyric_line_index < last_lyric_line_exclusive_index
        THEN SubSeq(lines, first_lyric_line_index + 1, last_lyric_line_exclusive_index)
        ELSE IF first_lyric_line_index > 0 \/ last_lyric_line_exclusive_index < n
             THEN <<>>
             ELSE lines

\* lines.retain(..): the lines no compiled pattern matches, in order.
RegexPass(lines, regex_to_use, regex_case_sensitive) ==
    LET compiled == { k \in 1..Len(regex_to_use) : regex_to_use[k].valid }
    IN  IF compiled = {} THEN lines
        ELSE SelectSeq(lines, LAMBDA line :
                 ~\E k \in compiled :
                     is_match(regex_to_use[k], get_plain_text_from_lyric_line(line),
                              regex_case_sensitive))

strip_descriptive_metadata_lines(lines, options) ==
    LET keywords_to_use ==
            IF options.keywords = None THEN default_keywords ELSE options.keywords[1]
        regex_to_use ==
            IF options.regex_patterns = None THEN default_regex ELSE options.regex_patterns[1]
        after_keywords ==
            IF keywords_to_use # <<>>
            THEN KeywordPass(lines, keywords_to_use, options.keyword_case_sensitive)
            ELSE lines
    IN  IF ~options.enabled THEN lines
        ELSE IF \/ lines = <<>>
                \/ (keywords_to_use = <<>>
                    /\ (~options.enable_regex_stripping \/ regex_to_use = <<>>))
        THEN lines
        ELSE IF options.enable_regex_stripping /\ regex_to_use # <<>> /\ after_keywords # <<>>
        THEN RegexPass(after_keywords, regex_to_use, options.regex_case_sensitive)
        ELSE after_keywords

----------------------------------------------------------------------------
MaxStripLines == 22
MaxStripCalls == 2

StripOptions(enabled, keywords, kcs, regex, patterns, rcs) ==
    [ enabled |-> enabled, keywords |-> keywords, keyword_case_sensitive |-> kcs,
      enable_regex_stripping |-> regex, regex_patterns |-> patterns,
      regex_case_sensitive |-> rcs ]

\* MetadataStripperOptions::default()
DefaultStripOptions == StripOptions(TRUE, None, FALSE, TRUE, None, FALSE)

StripOptionValues ==
    { DefaultStripOptions,
      StripOptions(FALSE, None, FALSE, TRUE, None, FALSE),
      StripOptions(TRUE, Some(<< <<"o", "p">> >>), TRUE, FALSE, None, FALSE),
      StripOptions(TRUE, Some(<< <<"O", "p">> >>), FALSE, TRUE,
                   Some(<< InvalidPattern, Pattern({<<"P", ":">>}) >>), FALSE),
      StripOptions(TRUE, Some(<< <<"o", "p">> >>), FALSE, TRUE,
                   Some(<< Pattern({<<"P", ":">>}) >>), TRUE),
      StripOptions(TRUE, Some(<<>>), FALSE, TRUE, None, FALSE),
      StripOptions(TRUE, Some(<<>>), FALSE, FALSE, None, FALSE),
      StripOptions(TRUE, None, TRUE, TRUE, Some(<<>>), FALSE),
      StripOptions(TRUE, Some(<<>>), FALSE, TRUE, Some(<< InvalidPattern >>), FALSE) }

PlainText == <<"x", " ", "y">>

StripSpecialTexts ==
    { <<"O", "P", ":", "x">>,
      <<"o", "p", " ", "FCOLON">>,
      <<" ", "[", "1", "]", " ", "ci", " ", "FCOLON", "y">>,
      <<"(", "x", ")", "zuo", "ci", ":">>,
      <<"o", "p", "x">>,
      <<"[", "o", "p", ":">>,
      <<"x", "gong", "zuo", "shi">> }

StripLengths == { k \in 0..MaxStripLines : k <= 2 \/ k >= MaxStripLines - 2 }

StripPositions(n) == {1, 2, HeaderScanLimit, HeaderScanLimit + 1, n - 1, n} \cap (1..n)

\* Line i of a list of n lines: the text t1 in line_text at position p1, the
\* text t2 in two syllables at position p2, a plain lyric line elsewhere.
StripInputLine(i, p1, t1, p2, t2) ==
    IF i = p1 THEN Line(Some(t1), 10 * i, 10 * i + 5, <<>>)
    ELSE IF i = p2
         THEN Line(None, 10 * i, 10 * i + 5,
                   << Syl(SubSeq(t2, 1, 2), 10 * i, 10 * i + 2),
                      Syl(DropFirst(t2, 2), 10 * i + 2, 10 * i + 5) >>)
         ELSE Line(Some(PlainText), 10 * i, 10 * i + 5, <<>>)

InitStrip ==
    /\ strip_opts \in StripOptionValues
    /\ \E n \in StripLengths :
       \E p1, p2 \in StripPositions(n) \cup {0} :
       \E t1, t2 \in StripSpecialTexts :
          /\ p1 # p2 \/ p1 = 0
          /\ strip_hist = << [i \in 1..n |-> StripInputLine(i, p1, t1, p2, t2)] >>
    /\ TimeIdle /\ SplitIdle /\ AgentIdle /\ ParseIdle /\ CacheIdle /\ WsIdle /\ RegexIdle /\ ServerIdle

StripDescriptiveMetadataLines ==
    /\ strip_hist # <<>>
    /\ Len(strip_hist) < 1 + MaxStripCalls
    /\ strip_hist' = Append(strip_hist,
                            strip_descriptive_metadata_lines(strip_hist[Len(strip_hist)],
                                                             strip_opts))
    /\ UNCHANGED strip_opts
    /\ UNCHANGED <<timeVars, splitVars, agentVars, parseVars, cacheVars, wsVars, regexVars,
                 serverVars>>

NextStrip == StripDescriptiveMetadataLines

SpecStrip == InitStrip /\ [][NextStrip]_vars

----------------------------------------------------------------------------
\* C6: strip_descriptive_metadata_lines is idempotent: applied a second time
\* to its own output, under the same options, it removes no further line.
C6_StripIdempotent ==
    Len(strip_hist) >= 3 => strip_hist[3] = strip_hist[2]

(***************************************************************************)
(* 4. Agent recognizer                                                     *)
(***************************************************************************)
NonAsciiChars == CjkChars \cup {"FCOLON", "FLP", "FRP"}

\* The number of UTF-8 bytes of a character and of a text (str::len).
ByteLen(c) == IF c \in NonAsciiChars THEN 3 ELSE 1

RECURSIVE BLen(_)
BLen(s) == IF s = <<>> THEN 0 ELSE ByteLen(s[1]) + BLen(Tail(s))

\* &s[n..]: the text from byte n on; slicing inside a character panics.
RECURSIVE OnCharBoundary(_, _)
OnCharBoundary(s, n) ==
    IF n = 0 THEN TRUE
    ELSE IF s = <<>> \/ ByteLen(s[1]) > n THEN FALSE
    ELSE OnCharBoundary(Tail(s), n - ByteLen(s[1]))

RECURSIVE DropBytes(_, _)
DropBytes(s, n) ==
    IF n <= 0 \/ s = <<>> THEN s ELSE DropBytes(Tail(s), n - ByteLen(s[1]))

\* The first position from j on that holds no whitespace, Len(s) + 1 if none.
AfterWs(s, j) ==
    CHOOSE k \in j..(Len(s) + 1) :
        /\ k = Len(s) + 1 \/ ~is_whitespace(s[k])
        /\ \A m \in j..(k - 1) : is_whitespace(s[m])

\* The tail  \s*[:FCOLON]\s*  of the built-in pattern tried at position j:
\* the position of the last character it matches, 0 when it does not match.
ColonEnd(s, j) ==
    LET k == AfterWs(s, j)
    IN  IF k <= Len(s) /\ s[k] \in {":", "FCOLON"} THEN AfterWs(s, k + 1) - 1 ELSE 0

NameStop == WhitespaceChars \cup {":", "(", ")", "FLP", "FRP"}

NoCaptures == [matched |-> FALSE, name |-> None, full_len |-> 0]

\* A name in parentheses: the lazy .+? takes the fewest characters (no line
\* feed among them) after which the closing parenthesis and the colon follow.
ParenCaptures(text, lead, close) ==
    LET ks == { k \in 1..(Len(text) - lead - 1) :
                  /\ \A m \in (lead + 1)..(lead + k) : text[m] # "\n"
                  /\ text[lead + k + 1] = close
                  /\ ColonEnd(text, lead + k + 2) # 0 }
        k == CHOOSE x \in ks : \A y \in ks : x <= y
    IN  IF ks = {} THEN NoCaptures
        ELSE [ matched |-> TRUE,
               name |-> Some(trim(SubSeq(text, lead + 1, lead + k))),
               full_len |-> ColonEnd(text, lead + k + 2) ]

\* A bare name: the greedy class takes the most characters outside NameStop
\* after which the colon follows.
BareCaptures(text, lead) ==
    LET run == { k \in 1..(Len(text) - lead + 1) :
                   \A m \in lead..(lead + k - 1) : text[m] \notin NameStop }
        ks == { k \in run : ColonEnd(text, lead + k) # 0 }
        k == CHOOSE x \in ks : \A y \in ks : y <= x
    IN  IF ks = {} THEN NoCaptures
        ELSE [ matched |-> TRUE,
               name |-> Some(trim(SubSeq(text, lead, lead + k - 1))),
               full_len |-> ColonEnd(text, lead + k) ]

\* DEFAULT_PATTERN  ^\s*(?:\((.+?)\)|FLP(.+?)FRP|([^\s:()FLP FRP]+))\s*[:FCOLON]\s*
DEFAULT_PATTERN == [valid |-> TRUE, alts |-> {}, builtin |-> TRUE]

DefaultCaptures(text) ==
    LET lead == AfterWs(text, 1)
    IN  IF lead > Len(text) THEN NoCaptures
        ELSE IF text[lead] = "(" THEN ParenCaptures(text, lead, ")")
        ELSE IF text[lead] = "FLP" THEN ParenCaptures(text, lead, "FRP")
        ELSE BareCaptures(text, lead)

\* agent_regex.captures(text) and the name taken from groups 1, 2, 3; a
\* custom pattern is a literal without groups, so it yields no name.
captures(agent_regex, text, case_sensitive) ==
    IF agent_regex = DEFAULT_PATTERN THEN DefaultCaptures(text)
    ELSE [ matched |-> is_match(agent_regex, text, case_sensitive),
           name |-> None, full_len |-> 0 ]

get_agent_regex(options) ==
    IF options.custom_pattern = None THEN DEFAULT_PATTERN ELSE options.custom_pattern[1]

get_line_text(line) ==
    IF line.line_text # None THEN line.line_text[1] ELSE SyllableText(line.main_syllables)

\* The number of leading syllables whose byte length fits in the budget.
RECURSIVE SyllablesToDrain(_, _)
SyllablesToDrain(syls, len_to_remove) ==
    IF syls # <<>> /\ len_to_remove >= BLen(syls[1].text)
    THEN 1 + SyllablesToDrain(Tail(syls), len_to_remove - BLen(syls[1].text))
    ELSE 0

\* clean_line_text: the line without the prefix, or a panic when the first
\* kept syllable is cut inside a character.
clean_line_text(line, prefix_to_remove) ==
    LET syls == line.main_syllables
        syllables_to_drain == SyllablesToDrain(syls, BLen(prefix_to_remove))
        len_to_remove ==
            BLen(prefix_to_remove) - BLen(SyllableText(SubSeq(syls, 1, syllables_to_drain)))
        drained == DropFirst(syls, syllables_to_drain)
        cuts == syls # <<>> /\ len_to_remove > 0 /\ drained # <<>>
        new_syls ==
            IF ~cuts THEN drained
            ELSE IF len_to_remove < BLen(drained[1].text)
                 THEN [drained EXCEPT ![1].text = DropBytes(drained[1].text, len_to_remove)]
                 ELSE Tail(drained)
        new_text ==
            IF line.line_text = None THEN None
            ELSE IF IsPrefix(prefix_to_remove, line.line_text[1])
                 THEN Some(DropFirst(line.line_text[1], Len(prefix_to_remove)))
                 ELSE IF new_syls # <<>> THEN Some(SyllableText(new_syls))
                      ELSE line.line_text
    IN  [ panic |-> cuts /\ len_to_remove < BLen(drained[1].text)
                        /\ ~OnCharBoundary(drained[1].text, len_to_remove),
          line |-> [line EXCEPT !.main_syllables = new_syls, !.line_text = new_text] ]

\* current_agent = Some(name)
NextCurrentAgentStale(name, current_agent) == current_agent

NextCurrentAgent(name, current_agent) == Some(name)

\* A pure marker line is dropped when remove_marker_lines is set.
SkipsLineAlways(is_pure, remove_marker_lines) == is_pure

SkipsLine(is_pure, remove_marker_lines) == is_pure /\ remove_marker_lines

\* The loop of recognize_agents from line i on.
RECURSIVE RecognizeFrom(_, _, _, _, _)
RecognizeFrom(lines, i, processed_lines, current_agent, options) ==
    IF i > Len(lines) THEN [panic |-> FALSE, lines |-> processed_lines]
    ELSE
      LET line == lines[i]
          full_text == get_line_text(line)
          cap == captures(get_agent_regex(options), full_text, options.case_sensitive)
      IN
      IF cap.matched /\ cap.name # None
      THEN LET name == cap.name[1]
               is_pure == trim(DropFirst(full_text, cap.full_len)) = <<>>
               marked == IF is_pure THEN line ELSE [line EXCEPT !.agent = Some(name)]
               cleaned == clean_line_text(marked, SubSeq(full_text, 1, cap.full_len))
           IN  IF SkipsLine(is_pure, options.remove_marker_lines)
               THEN RecognizeFrom(lines, i + 1, processed_lines,
                                  NextCurrentAgent(name, current_agent), options)
               ELSE IF cleaned.panic THEN [panic |-> TRUE, lines |-> <<>>]
               ELSE RecognizeFrom(lines, i + 1, Append(processed_lines, cleaned.line),
                                  NextCurrentAgent(name, current_agent), options)
      ELSE RecognizeFrom(lines, i + 1,
                         Append(processed_lines,
                                IF options.inherit_agent
                                THEN [line EXCEPT !.agent = current_agent] ELSE line),
                         current_agent, options)

\* recognize_agents: the lines it leaves, or a panic (the unwrap of a custom
\* pattern that does not compile, or clean_line_text).
recognize_agents(lines, options) ==
    IF ~options.enabled THEN [panic |-> FALSE, lines |-> lines]
    ELSE IF ~get_agent_regex(options).valid THEN [panic |-> TRUE, lines |-> <<>>]
    ELSE RecognizeFrom(lines, 1, <<>>, None, options)

----------------------------------------------------------------------------
MaxAgentLines == 3

AgentOptions(enabled, custom_pattern, case_sensitive, inherit_agent, remove_marker_lines) ==
    [ enabled |-> enabled, custom_pattern |-> custom_pattern,
      case_sensitive |-> case_sensitive, inherit_agent |-> inherit_agent,
      remove_marker_lines |-> remove_marker_lines ]

AgentOptionValues ==
    { AgentOptions(TRUE, None, TRUE, inh, rem) : inh, rem \in BOOLEAN }
    \cup { AgentOptions(FALSE, None, TRUE, TRUE, TRUE),
           AgentOptions(TRUE, Some(InvalidPattern), TRUE, TRUE, TRUE),
           AgentOptions(TRUE, Some(Pattern({<<"A", ":">>})), FALSE, TRUE, FALSE) }

V1 == <<"v", "1">>

\* The shapes of input line: flat text, syllable texts (each with its
\* ends_with_space flag) and the agent the line carries.
AgentShape(line_text, syls, agent) == [line_text |-> line_text, syls |-> syls, agent |-> agent]

AgentShapes ==
    { AgentShape(Some(<<"x", " ", "y">>), <<>>, Some(V1)),
      AgentShape(Some(<<"y">>), <<>>, None),
      AgentShape(Some(<<"A", ":", "x">>), <<>>, Some(V1)),
      AgentShape(Some(<<"zh1", "FCOLON", "zh2", "FCOLON", " ", "x">>), <<>>, None),
      AgentShape(Some(<<" ", "B", " ", ":", " ">>), <<>>, Some(V1)),
      AgentShape(Some(<<"(", "a", " ", "b", ")", ":", "y">>), <<>>, Some(V1)),
      AgentShape(Some(<<"FLP", "zh3", "FRP", "FCOLON", "x">>), <<>>, Some(V1)),
      AgentShape(None, << <<<<"A">>, FALSE>>, <<<<"FCOLON", " ">>, FALSE>>,
                          <<<<"zh1">>, FALSE>>, <<<<"x">>, FALSE>> >>, Some(V1)),
      AgentShape(None, << <<<<"B">>, FALSE>>, <<<<"FCOLON">>, FALSE>> >>, Some(V1)),
      AgentShape(None, << <<<<"x">>, TRUE>>, <<<<"y">>, FALSE>> >>, Some(<<"v", "2">>)),
      AgentShape(Some(<<"A", ":", " ", "zh1">>),
                 << <<<<"A", ":">>, TRUE>>, <<<<"zh1">>, FALSE>> >>, Some(V1)) }

AgentInputLine(shape, i) ==
    [ Line(shape.line_text, 10 * i, 10 * i + 5,
           [k \in 1..Len(shape.syls) |->
               [ Syl(shape.syls[k][1], 10 * i + k - 1, 10 * i + k)
                 EXCEPT !.ends_with_space = shape.syls[k][2] ]])
      EXCEPT !.agent = shape.agent ]

InitAgent ==
    /\ agent_opts \in AgentOptionValues
    /\ \E n \in 0..MaxAgentLines : \E shapes \in [1..n -> AgentShapes] :
          agent_in = [i \in 1..n |-> AgentInputLine(shapes[i], i)]
    /\ agent_lines = agent_in
    /\ agent_status = "called"
    /\ TimeIdle /\ SplitIdle /\ StripIdle /\ ParseIdle /\ CacheIdle /\ WsIdle /\ RegexIdle /\ ServerIdle

RecognizeAgents ==
    /\ agent_status = "called"
    /\ LET res == recognize_agents(agent_lines, agent_opts)
       IN  /\ agent_status' = IF res.panic THEN "panicked" ELSE "returned"
           /\ agent_lines' = res.lines
    /\ UNCHANGED <<agent_opts, agent_in>>
    /\ UNCHANGED <<timeVars, splitVars, stripVars, parseVars, cacheVars, wsVars, regexVars,
                 serverVars>>

NextAgent == RecognizeAgents

SpecAgent == InitAgent /\ [][NextAgent]_vars

----------------------------------------------------------------------------
\* The reading of the input the claims are stated over: what the built-in
\* pattern finds in input line i.
MarkerOf(i) == DefaultCaptures(get_line_text(agent_in[i]))
IsMarker(i) == MarkerOf(i).matched
IsPureMarker(i) ==
    IsMarker(i) /\ trim(DropFirst(get_line_text(agent_in[i]), MarkerOf(i).full_len)) = <<>>
IsInlineMarker(i) == IsMarker(i) /\ ~IsPureMarker(i)
MarkerName(i) == MarkerOf(i).name[1]

\* Input line i is in the output at position OutPos(i): lines are told apart
\* by their start time, which differs from line to line in the inputs.
PureBefore(i) == Cardinality({ k \in 1..(i - 1) : IsPureMarker(k) })
OutPos(i) == IF agent_opts.remove_marker_lines THEN i - PureBefore(i) ELSE i
Kept(i) == ~(agent_opts.remove_marker_lines /\ IsPureMarker(i))

MarkersBefore(i) == { k \in 1..(i - 1) : IsMarker(k) }
NearestMarker(i) == CHOOSE k \in MarkersBefore(i) : \A m \in MarkersBefore(i) : m <= k

\* The recognizer ran to its end with the built-in pattern.
AgentRan ==
    /\ agent_status = "returned"
    /\ agent_opts.enabled
    /\ agent_opts.custom_pattern = None

\* C7: with inheritance enabled, after recognize_agents (enabled, built-in
\* pattern) every line carrying an inline marker has that marker's name as
\* its singer, and every line that does not match the pattern has the name
\* of the nearest preceding matching line, inline or pure, removed or not.
C7_InheritNearestMarker ==
    (AgentRan /\ agent_opts.inherit_agent) =>
        \A i \in 1..Len(agent_in) :
            /\ IsInlineMarker(i) =>
                  /\ OutPos(i) <= Len(agent_lines)
                  /\ agent_lines[OutPos(i)].agent = Some(MarkerName(i))
            /\ (~IsMarker(i) /\ MarkersBefore(i) # {}) =>
                  /\ OutPos(i) <= Len(agent_lines)
                  /\ agent_lines[OutPos(i)].agent = Some(MarkerName(NearestMarker(i)))

\* A removed pure marker "B:" handed its name to the plain line after it,
\* and a later inline marker changed the singer.
C7_Witness ==
    /\ AgentRan /\ agent_opts.inherit_agent /\ agent_opts.remove_marker_lines
    /\ Len(agent_in) = 3 /\ Len(agent_lines) = 2
    /\ IsPureMarker(1) /\ ~IsMarker(2) /\ IsInlineMarker(3)
    /\ agent_lines[1].agent = Some(<<"B">>)
    /\ agent_lines[2].agent # Some(<<"B">>)

\* C8: a line matching the pattern with an empty remainder is a pure marker:
\* it sets the current singer; with remove_marker_lines the output is exactly
\* the input lines that are not pure markers, in order; without it the number
\* of lines is unchanged.
C8_PureMarkerRemoval ==
    AgentRan =>
        /\ agent_opts.remove_marker_lines =>
              /\ Len(agent_lines) = Cardinality({ i \in 1..Len(agent_in) : ~IsPureMarker(i) })
              /\ \A i \in 1..Len(agent_in) :
                    ~IsPureMarker(i) => agent_lines[OutPos(i)].start_ms = agent_in[i].start_ms
        /\ ~agent_opts.remove_marker_lines =>
              /\ Len(agent_lines) = Len(agent_in)
              /\ \A i \in 1..Len(agent_in) : agent_lines[i].start_ms = agent_in[i].start_ms
        /\ agent_opts.inherit_agent =>
              \A i \in 2..Len(agent_in) :
                  (IsPureMarker(i - 1) /\ ~IsMarker(i)) =>
                      agent_lines[OutPos(i)].agent = Some(MarkerName(i - 1))

\* A pure marker between two lyric lines was removed.
C8_Witness ==
    /\ AgentRan /\ agent_opts.remove_marker_lines
    /\ Len(agent_in) = 3 /\ Len(agent_lines) = 2
    /\ ~IsMarker(1) /\ IsPureMarker(2) /\ ~IsMarker(3)
    /\ agent_lines[2].start_ms = agent_in[3].start_ms

(***************************************************************************)
(* 5. TTML parser                                                          *)
(***************************************************************************)
\* The events of the XML reader.  An element name is its local name, prefix
\* its namespace prefix ("" when it has none); attrs is a record of the
\* attributes the element carries (<<>> when none), with the fields
\*   timing (itunes:timing)  lang (xml:lang)  song_part (itunes:song-part)
\*   begin  end  ttm_agent (ttm:agent)  agent  key (itunes:key)
\*   ttm_role (ttm:role)  role  scheme (xml:scheme)  for  id (xml:id)  type
\*   mkey (key)  mvalue (value).
\* Texts and time codes are sequences of characters; keys, languages and
\* role values are plain strings.  "Other" stands for the events no handler
\* looks at (comment, CDATA, declaration, processing instruction), "Error"
\* for the reader failing at that point of the content.
Ev(type, prefix, name, attrs, text) ==
    [type |-> type, prefix |-> prefix, name |-> name, attrs |-> attrs, text |-> text]
StartEv(prefix, name, attrs) == Ev("Start", prefix, name, attrs, <<>>)
EndEv(prefix, name) == Ev("End", prefix, name, <<>>, <<>>)
TextEv(text) == Ev("Text", "", "", <<>>, text)
RefEv(name) == Ev("GeneralRef", "", name, <<>>, <<>>)
ErrorEv == Ev("Error", "", "", <<>>, <<>>)

Attr(e, a) == IF a \in DOMAIN e.attrs THEN Some(e.attrs[a]) ELSE None

\* attribute a decoded by parse_ttml_time_to_ms: None when absent.
TimeAttr(e, a) == IF a \in DOMAIN e.attrs THEN Some(parse_ttml_time_to_ms(e.attrs[a])) ELSE None

\* The time of an attribute that is absent or decodes: unwrap_or(dflt).
TimeOr(t, dflt) == IF t = None THEN dflt ELSE t[1].ms

\* The time as the Option a span context keeps.
TimeOpt(t) == IF t = None THEN None ELSE Some(t[1].ms)

\* The error of the decoder dropped, as unwrap_or would.
TimeFailsNever(t) == FALSE

\* The ? on a time attribute: the handler returns the decoder's error.
TimeFails(t) == t # None /\ ~t[1].ok

\* normalize_text_whitespace: trimmed, every whitespace run one space.
RECURSIVE CollapseWs(_)
CollapseWs(s) ==
    IF s = <<>> THEN <<>>
    ELSE IF is_whitespace(s[1])
         THEN IF Len(s) > 1 /\ is_whitespace(s[2]) THEN CollapseWs(Tail(s))
              ELSE <<" ">> \o CollapseWs(Tail(s))
         ELSE <<s[1]>> \o CollapseWs(Tail(s))

normalize_text_whitespace(text) == CollapseWs(trim(text))

RECURSIVE trim_start_matches(_, _)
trim_start_matches(s, cs) ==
    IF s # <<>> /\ s[1] \in cs THEN trim_start_matches(Tail(s), cs) ELSE s

RECURSIVE trim_end_matches(_, _)
trim_end_matches(s, cs) ==
    IF s # <<>> /\ s[Len(s)] \in cs THEN trim_end_matches(SubSeq(s, 1, Len(s) - 1), cs) ELSE s

clean_parentheses_from_bg_text(text) ==
    trim(trim_end_matches(trim_start_matches(trim(text), {"(", "FLP"}), {")", "FRP"}))

ends_with_whitespace(text) == text # <<>> /\ is_whitespace(text[Len(text)])

\* The character of a predefined entity; <<>> for any other entity name.
DecodeEntity(entity_name) ==
    CASE entity_name = "amp" -> <<"&">>
      [] entity_name = "lt" -> <<"<">>
      [] entity_name = "gt" -> <<">">>
      [] entity_name = "quot" -> <<"\"">>
      [] entity_name = "apos" -> <<"'">>
      [] OTHER -> <<>>

\* TIMED_SPAN_RE over the content: a span start tag, written without a
\* prefix, that carries a begin attribute.
has_timed_span_tags(doc) ==
    \E k \in 1..Len(doc) :
        /\ doc[k].type = "Start" /\ doc[k].name = "span" /\ doc[k].prefix = ""
        /\ "begin" \in DOMAIN doc[k].attrs

\* TtmlParserState::default() with the default languages of the call, and
\* the empty lines, raw_metadata and warnings of parse_ttml.  raw_metadata is
\* kept as the list of its pushes <<entry, key, value>>; a warning is kept as
\* the name of the place that pushes it.  err is set when a handler returns
\* Err; skip counts the events reader.read_text consumed.
InitialParser ==
    [ is_line_timing_mode |-> FALSE, detected_line_mode |-> FALSE,
      default_main_lang |-> None, default_translation_lang |-> None,
      default_romanization_lang |-> None,
      xml_ids |-> {}, text_buffer |-> <<>>,
      in_metadata_section |-> FALSE,
      in_itunes_metadata |-> FALSE, in_am_translations |-> FALSE,
      in_am_translation |-> FALSE, current_am_translation_lang |-> None,
      translation_map |-> <<>>,
      in_songwriters_tag |-> FALSE, in_songwriter_tag |-> FALSE,
      current_songwriter_name |-> <<>>,
      in_agent_tag |-> FALSE, in_agent_name_tag |-> FALSE,
      current_agent_id_for_name |-> None, current_agent_name_text |-> <<>>,
      in_ttm_metadata_tag |-> FALSE, current_ttm_metadata_key |-> None,
      in_body |-> FALSE, in_div |-> FALSE, in_p |-> FALSE,
      current_div_song_part |-> None, current_p_element_data |-> None,
      span_stack |-> <<>>, last_syllable_info |-> "None",
      lines |-> <<>>, raw_metadata |-> <<>>, warnings |-> <<>>,
      err |-> FALSE, skip |-> 0 ]

Warn(m, w) == [m EXCEPT !.warnings = Append(@, w)]
Fail(m) == [m EXCEPT !.err = TRUE]
PushMeta(m, entry, key, value) ==
    [m EXCEPT !.raw_metadata = Append(@, <<entry, key, value>>)]

process_tt_start(m, e, timed_spans) ==
    LET m1 == IF "timing" \in DOMAIN e.attrs
              THEN IF e.attrs.timing = "line" THEN [m EXCEPT !.is_line_timing_mode = TRUE]
                   ELSE m
              ELSE IF ~timed_spans
                   THEN Warn([m EXCEPT !.is_line_timing_mode = TRUE,
                                       !.detected_line_mode = TRUE], "auto_line_mode")
                   ELSE m
    IN  IF "lang" \in DOMAIN e.attrs /\ e.attrs.lang # ""
        THEN [PushMeta(m1, "xml:lang_root", "", e.attrs.lang)
                 EXCEPT !.default_main_lang =
                            IF @ = None THEN Some(e.attrs.lang) ELSE @]
        ELSE m1

\* The paragraph context entered and no line-build buffer made.
process_p_start_without_buffer(m, e) ==
    IF TimeFails(TimeAttr(e, "begin")) \/ TimeFails(TimeAttr(e, "end"))
    THEN Fail([m EXCEPT !.in_p = TRUE])
    ELSE [m EXCEPT !.in_p = TRUE, !.text_buffer = <<>>, !.span_stack = <<>>]

\* The <p> start in the body: a begin or end that does not decode is an error.
process_p_start(m, e) ==
    LET begin == TimeAttr(e, "begin")
        end == TimeAttr(e, "end")
        agent == IF Attr(e, "ttm_agent") # None THEN Attr(e, "ttm_agent")
                 ELSE Attr(e, "agent")
        song_part == IF Attr(e, "song_part") # None THEN Attr(e, "song_part")
                     ELSE m.current_div_song_part
        p_data == [ start_ms |-> TimeOr(begin, 0), end_ms |-> TimeOr(end, 0),
                    agent |-> agent, song_part |-> song_part,
                    itunes_key |-> Attr(e, "key"),
                    line_text_accumulator |-> <<>>, syllables_accumulator |-> <<>>,
                    translations_accumulator |-> <<>>,
                    romanizations_accumulator |-> <<>>,
                    background_section_accumulator |-> None ]
    IN  IF TimeFails(begin) \/ TimeFails(end) THEN Fail([m EXCEPT !.in_p = TRUE])
        ELSE [m EXCEPT !.in_p = TRUE, !.current_p_element_data = Some(p_data),
                       !.text_buffer = <<>>, !.span_stack = <<>>]

handle_global_event(m, e, timed_spans) ==
    IF e.type = "Start" THEN
        CASE e.name = "tt" -> process_tt_start(m, e, timed_spans)
          [] e.name = "metadata" -> [m EXCEPT !.in_metadata_section = TRUE]
          [] e.name = "body" -> [m EXCEPT !.in_body = TRUE]
          [] e.name = "div" /\ m.in_body ->
                [m EXCEPT !.in_div = TRUE, !.current_div_song_part = Attr(e, "song_part")]
          [] e.name = "p" /\ m.in_body -> process_p_start(m, e)
          [] OTHER -> m
    ELSE IF e.type = "End" THEN
        CASE e.name = "div" /\ m.in_div ->
                [m EXCEPT !.in_div = FALSE, !.current_div_song_part = None]
          [] e.name = "metadata" -> [m EXCEPT !.in_metadata_section = FALSE]
          [] OTHER -> m
    ELSE m

process_meta_tag(m, e) ==
    IF "mkey" \in DOMAIN e.attrs /\ "mvalue" \in DOMAIN e.attrs /\ e.attrs.mkey # ""
    THEN PushMeta(m, "meta", e.attrs.mkey, e.attrs.mvalue)
    ELSE m

\* process_agent_tag with check_and_store_xml_id
process_agent_tag(m, e) ==
    IF "id" \notin DOMAIN e.attrs THEN m
    ELSE LET id == e.attrs.id
             m1 == IF id # "" /\ id \in m.xml_ids THEN Warn(m, "duplicate_xml_id")
                   ELSE IF id # "" THEN [m EXCEPT !.xml_ids = @ \cup {id}]
                   ELSE m
             agent_type == IF "type" \in DOMAIN e.attrs THEN e.attrs.type ELSE "person"
         IN  PushMeta(m1, "agent-type", id, agent_type)

\* The text an event was read from: what reader.read_text returns is the
\* concatenation of these for the events up to the matching end tag.  (The
\* elements read this way carry no attributes in the modelled contents.)
TagChars(prefix, name) ==
    (IF prefix = "" THEN <<>> ELSE <<prefix, ":">>) \o
    (IF name = "span" THEN <<"s", "p", "a", "n">> ELSE <<name>>)

RawText(e) ==
    CASE e.type = "Start" -> <<"<">> \o TagChars(e.prefix, e.name) \o <<">">>
      [] e.type = "End" -> <<"<", "/">> \o TagChars(e.prefix, e.name) \o <<">">>
      [] e.type = "Text" -> e.text
      [] e.type = "GeneralRef" -> <<"&", e.name, ";">>
      [] OTHER -> <<>>

\* reader.read_text(end) called after the start tag at position pos: found
\* is FALSE when the reader fails or the content ends before the matching
\* end tag; last is the position of that end tag.
RECURSIVE ReadText(_, _, _, _)
ReadText(doc, k, depth, acc) ==
    IF k > Len(doc) \/ doc[k].type = "Error" THEN [found |-> FALSE, text |-> acc, last |-> k]
    ELSE IF doc[k].type = "End" /\ depth = 0 THEN [found |-> TRUE, text |-> acc, last |-> k]
    ELSE ReadText(doc, k + 1,
                  depth + (IF doc[k].type = "Start" THEN 1
                           ELSE IF doc[k].type = "End" THEN -1 ELSE 0),
                  acc \o RawText(doc[k]))

\* translation_map, a HashMap, as the list of its <<key, value>> pairs.
MapHas(map, key) == \E k \in 1..Len(map) : map[k][1] = key
MapGet(map, key) == map[CHOOSE k \in 1..Len(map) : map[k][1] = key][2]
MapInsert(map, key, value) ==
    Append(SelectSeq(map, LAMBDA kv : kv[1] # key), <<key, value>>)

\* The arms are tried in order, as those of the match are.
handle_metadata_start_event(m, e, doc, pos) ==
    LET ttm == e.prefix = "ttm" IN
    CASE e.name = "meta" -> process_meta_tag(m, e)
      [] e.name = "iTunesMetadata" -> [m EXCEPT !.in_itunes_metadata = TRUE]
      [] e.name = "translations" /\ m.in_itunes_metadata ->
            [m EXCEPT !.in_am_translations = TRUE]
      [] e.name = "translation" /\ m.in_am_translations ->
            [m EXCEPT !.in_am_translation = TRUE,
                      !.current_am_translation_lang = Attr(e, "lang")]
      [] e.name = "text" /\ m.in_am_translation ->
            IF "for" \notin DOMAIN e.attrs THEN m
            ELSE LET r == ReadText(doc, pos + 1, 0, <<>>) IN
                 IF ~r.found THEN Fail(m)
                 ELSE [m EXCEPT !.skip = r.last - pos,
                                !.translation_map =
                                    IF r.text = <<>> THEN @
                                    ELSE MapInsert(@, e.attrs.for,
                                             <<r.text, m.current_am_translation_lang>>)]
      [] e.name = "songwriters" /\ m.in_itunes_metadata ->
            [m EXCEPT !.in_songwriters_tag = TRUE]
      [] e.name = "songwriter" /\ m.in_songwriters_tag ->
            [m EXCEPT !.in_songwriter_tag = TRUE, !.current_songwriter_name = <<>>]
      [] e.name = "agent" /\ ttm ->
            IF "id" \in DOMAIN e.attrs
            THEN [process_agent_tag(m, e) EXCEPT !.in_agent_tag = TRUE,
                                                 !.current_agent_id_for_name = Some(e.attrs.id)]
            ELSE m
      [] e.name = "name" /\ m.in_agent_tag /\ ttm ->
            [m EXCEPT !.in_agent_name_tag = TRUE, !.current_agent_name_text = <<>>]
      [] ttm -> [m EXCEPT !.in_ttm_metadata_tag = TRUE,
                          !.current_ttm_metadata_key = Some(e.name),
                          !.text_buffer = <<>>]
      [] OTHER -> m

\* Text and decoded references in the metadata section go to one buffer.
MetadataPush(m, chars) ==
    IF m.in_songwriter_tag THEN [m EXCEPT !.current_songwriter_name = @ \o chars]
    ELSE IF m.in_agent_name_tag THEN [m EXCEPT !.current_agent_name_text = @ \o chars]
    ELSE IF m.in_ttm_metadata_tag THEN [m EXCEPT !.text_buffer = @ \o chars]
    ELSE m

handle_metadata_end_event(m, e) ==
    LET ttm == e.prefix = "ttm" IN
    CASE e.name = "iTunesMetadata" -> [m EXCEPT !.in_itunes_metadata = FALSE]
      [] e.name = "translations" -> [m EXCEPT !.in_am_translations = FALSE]
      [] e.name = "translation" -> [m EXCEPT !.in_am_translation = FALSE]
      [] e.name = "songwriter" ->
            [(IF m.current_songwriter_name # <<>>
              THEN PushMeta(m, "songwriters", "", trim(m.current_songwriter_name))
              ELSE m) EXCEPT !.in_songwriter_tag = FALSE]
      [] e.name = "songwriters" -> [m EXCEPT !.in_songwriters_tag = FALSE]
      [] e.name = "name" /\ m.in_agent_name_tag /\ ttm ->
            [(IF m.current_agent_id_for_name # None /\ trim(m.current_agent_name_text) # <<>>
              THEN PushMeta(m, "agent", m.current_agent_id_for_name[1],
                            trim(m.current_agent_name_text))
              ELSE m) EXCEPT !.in_agent_name_tag = FALSE]
      [] e.name = "agent" /\ m.in_agent_tag /\ ttm ->
            [m EXCEPT !.in_agent_tag = FALSE, !.current_agent_id_for_name = None]
      [] OTHER ->
            IF m.in_ttm_metadata_tag /\ m.current_ttm_metadata_key = Some(e.name)
            THEN [(IF normalize_text_whitespace(m.text_buffer) # <<>>
                   THEN PushMeta(m, "ttm", e.name, normalize_text_whitespace(m.text_buffer))
                   ELSE m) EXCEPT !.in_ttm_metadata_tag = FALSE,
                                  !.current_ttm_metadata_key = None,
                                  !.text_buffer = <<>>]
            ELSE m

handle_metadata_event(m, e, doc, pos) ==
    CASE e.type = "Start" -> handle_metadata_start_event(m, e, doc, pos)
      [] e.type = "Text" -> MetadataPush(m, e.text)
      [] e.type = "GeneralRef" ->
            IF DecodeEntity(e.name) = <<>> THEN Warn(m, "metadata_unknown_entity")
            ELSE MetadataPush(m, DecodeEntity(e.name))
      [] e.type = "End" ->
            IF e.name = "metadata" THEN [m EXCEPT !.in_metadata_section = FALSE]
            ELSE handle_metadata_end_event(m, e)
      [] OTHER -> m

PData(m) == m.current_p_element_data[1]
WithP(m, p_data) == [m EXCEPT !.current_p_element_data = Some(p_data)]

SpanRoleOf(e) ==
    LET role == IF Attr(e, "ttm_role") # None THEN Attr(e, "ttm_role") ELSE Attr(e, "role") IN
    IF role = None THEN "Generic"
    ELSE CASE role[1] = "x-translation" -> "Translation"
           [] role[1] = "x-roman" -> "Romanization"
           [] role[1] = "x-bg" -> "Background"
           [] OTHER -> "Generic"

\* A begin or end that does not decode is an error, whatever the role.
process_span_start(m, e) ==
    LET start_ms == TimeAttr(e, "begin")
        end_ms == TimeAttr(e, "end")
        role == SpanRoleOf(e)
        ctx == [ role |-> role, lang |-> Attr(e, "lang"), scheme |-> Attr(e, "scheme"),
                 start_ms |-> TimeOpt(start_ms), end_ms |-> TimeOpt(end_ms) ]
        m1 == [m EXCEPT !.text_buffer = <<>>]
        m2 == [m1 EXCEPT !.span_stack = Append(@, ctx)]
    IN  IF TimeFails(start_ms) \/ TimeFails(end_ms) THEN Fail(m1)
        ELSE IF role = "Background" /\ m.current_p_element_data # None
                /\ PData(m).background_section_accumulator = None
        THEN WithP(m2, [PData(m) EXCEPT !.background_section_accumulator =
                            Some([ start_ms |-> TimeOr(start_ms, 0),
                                   end_ms |-> TimeOr(end_ms, 0),
                                   syllables |-> <<>>, translations |-> <<>>,
                                   romanizations |-> <<>> ])])
        ELSE m2

AllWhitespace(text) == \A k \in 1..Len(text) : is_whitespace(text[k])

\* The last syllable left as it is.
KeepLastEndsWithSpace(syls, b) == syls

\* syllables.last_mut(): ends_with_space = b
SetLastEndsWithSpace(syls, b) ==
    IF syls = <<>> THEN syls ELSE [syls EXCEPT ![Len(syls)].ends_with_space = b]

\* Characters accumulated inside <p>: to the span's buffer inside a span,
\* to the line's flat text outside.
PushChars(m, chars) ==
    IF m.span_stack # <<>> THEN [m EXCEPT !.text_buffer = @ \o chars]
    ELSE IF m.current_p_element_data # None
    THEN WithP(m, [PData(m) EXCEPT !.line_text_accumulator = @ \o chars])
    ELSE m

process_text_event(m, text) ==
    IF ~m.in_p THEN m
    ELSE IF m.last_syllable_info # "None" /\ text # <<>> /\ AllWhitespace(text)
    THEN LET p == PData(m)
             bg == p.background_section_accumulator
             m1 == IF m.current_p_element_data = None THEN m
                   ELSE IF m.last_syllable_info = "EndedBackground"
                   THEN IF bg = None THEN m
                        ELSE WithP(m, [p EXCEPT !.background_section_accumulator =
                                 Some([bg[1] EXCEPT !.syllables =
                                           SetLastEndsWithSpace(@, TRUE)])])
                   ELSE WithP(m, [p EXCEPT !.syllables_accumulator =
                                      SetLastEndsWithSpace(@, TRUE)])
         IN  [m1 EXCEPT !.last_syllable_info = "None"]
    ELSE IF trim(text) = <<>> THEN m
    ELSE PushChars([m EXCEPT !.last_syllable_info = "None"], text)

WithinBackground(m) == \E k \in 1..Len(m.span_stack) : m.span_stack[k].role = "Background"

\* The syllable with the span's end as it was written.
SpanSyllableUnclamped(text, start_ms, end_ms, within_bg) ==
    [ text |-> IF trim(text) = <<>> THEN <<" ">>
               ELSE IF within_bg THEN clean_parentheses_from_bg_text(trim(text))
               ELSE normalize_text_whitespace(trim(text)),
      start_ms |-> start_ms, end_ms |-> end_ms,
      duration_ms |-> Some(saturating_sub(end_ms, start_ms)),
      ends_with_space |-> trim(text) # <<>> /\ ends_with_whitespace(text) ]

\* The two branches that build a syllable from a timed span.
SpanSyllable(text, start_ms, end_ms, within_bg) ==
    [ text |-> IF trim(text) = <<>> THEN <<" ">>
               ELSE IF within_bg THEN clean_parentheses_from_bg_text(trim(text))
               ELSE normalize_text_whitespace(trim(text)),
      start_ms |-> start_ms, end_ms |-> Max(end_ms, start_ms),
      duration_ms |-> Some(saturating_sub(end_ms, start_ms)),
      ends_with_space |-> trim(text) # <<>> /\ ends_with_whitespace(text) ]

\* The span's text appended to the flat text in either timing mode.
handle_generic_span_end_flat(m, ctx, text) ==
    IF m.current_p_element_data = None THEN m
    ELSE WithP(m, [PData(m) EXCEPT !.line_text_accumulator = @ \o text])

\* m is the state after the span's context was popped.
handle_generic_span_end(m, ctx, text) ==
    LET p == PData(m)
        bg == p.background_section_accumulator
        within_bg == WithinBackground(m)
    IN
    IF m.is_line_timing_mode
    THEN IF m.current_p_element_data = None THEN m
         ELSE WithP(m, [p EXCEPT !.line_text_accumulator = @ \o text])
    ELSE IF ctx.start_ms # None /\ ctx.end_ms # None
    THEN IF text = <<>> THEN m
         ELSE LET m1 == IF ctx.start_ms[1] > ctx.end_ms[1]
                        THEN Warn(m, "syllable_start_after_end") ELSE m
                  syl == SpanSyllable(text, ctx.start_ms[1], ctx.end_ms[1], within_bg)
              IN  IF m.current_p_element_data = None THEN Fail(m1)
                  ELSE IF within_bg
                  THEN IF bg = None THEN m1
                       ELSE [WithP(m1, [p EXCEPT !.background_section_accumulator =
                                 Some([bg[1] EXCEPT !.syllables = Append(@, syl)])])
                               EXCEPT !.last_syllable_info = "EndedBackground"]
                  ELSE [WithP(m1, [p EXCEPT !.syllables_accumulator = Append(@, syl)])
                          EXCEPT !.last_syllable_info = "EndedMain"]
    ELSE IF trim(text) # <<>> THEN Warn(m, "span_without_time")
    ELSE m

handle_auxiliary_span_end(m, ctx, text) ==
    LET normalized_text == normalize_text_whitespace(text)
        p == PData(m)
        bg == p.background_section_accumulator
        within_bg == WithinBackground(m)
        lang_to_use == IF ctx.lang # None THEN ctx.lang
                       ELSE IF ctx.role = "Translation" THEN m.default_translation_lang
                       ELSE m.default_romanization_lang
        translation == [text |-> normalized_text, lang |-> lang_to_use]
        romanization == [text |-> normalized_text, lang |-> lang_to_use,
                         scheme |-> ctx.scheme]
    IN
    IF normalized_text = <<>> THEN m
    ELSE IF m.current_p_element_data = None THEN Fail(m)
    ELSE IF within_bg
    THEN IF bg = None THEN m
         ELSE IF ctx.role = "Translation"
         THEN WithP(m, [p EXCEPT !.background_section_accumulator =
                  Some([bg[1] EXCEPT !.translations = Append(@, translation)])])
         ELSE WithP(m, [p EXCEPT !.background_section_accumulator =
                  Some([bg[1] EXCEPT !.romanizations = Append(@, romanization)])])
    ELSE IF ctx.role = "Translation"
    THEN WithP(m, [p EXCEPT !.translations_accumulator = Append(@, translation)])
    ELSE WithP(m, [p EXCEPT !.romanizations_accumulator = Append(@, romanization)])

RECURSIVE MinStart(_)
MinStart(syls) ==
    IF Len(syls) = 1 THEN syls[1].start_ms ELSE Min(syls[1].start_ms, MinStart(Tail(syls)))

RECURSIVE MaxEnd(_)
MaxEnd(syls) ==
    IF Len(syls) = 1 THEN syls[1].end_ms ELSE Max(syls[1].end_ms, MaxEnd(Tail(syls)))

handle_background_span_end(m, ctx, text) ==
    IF m.current_p_element_data = None THEN Fail(m)
    ELSE
    LET p0 == PData(m)
        bg0 == p0.background_section_accumulator
        untimed == ctx.start_ms = None \/ ctx.end_ms = None
        bg == IF bg0 # None /\ untimed /\ bg0[1].syllables # <<>>
              THEN Some([bg0[1] EXCEPT !.start_ms = MinStart(bg0[1].syllables),
                                       !.end_ms = MaxEnd(bg0[1].syllables)])
              ELSE bg0
        p == [p0 EXCEPT !.background_section_accumulator = bg]
        m1 == WithP(m, p)
        syl == [ text |-> normalize_text_whitespace(trim(text)),
                 start_ms |-> ctx.start_ms[1],
                 end_ms |-> Max(ctx.end_ms[1], ctx.start_ms[1]),
                 duration_ms |-> Some(saturating_sub(ctx.end_ms[1], ctx.start_ms[1])),
                 ends_with_space |-> ends_with_whitespace(text) ]
    IN  IF trim(text) = <<>> THEN m1
        ELSE IF untimed THEN Warn(m1, "background_text_without_time")
        ELSE IF bg = None THEN m1
        ELSE IF bg[1].syllables = <<>>
        THEN [WithP(m1, [p EXCEPT !.background_section_accumulator =
                  Some([bg[1] EXCEPT !.syllables = <<syl>>])])
                EXCEPT !.last_syllable_info = "EndedBackground"]
        ELSE Warn(m1, "background_text_ignored")

process_span_end(m) ==
    LET m1 == [m EXCEPT !.last_syllable_info = "None"] IN
    IF m.span_stack = <<>> THEN m1
    ELSE LET ctx == m.span_stack[Len(m.span_stack)]
             text == m.text_buffer
             m2 == [m1 EXCEPT !.span_stack = SubSeq(@, 1, Len(@) - 1),
                              !.text_buffer = <<>>]
         IN  CASE ctx.role = "Generic" -> handle_generic_span_end(m2, ctx, text)
               [] ctx.role = "Background" -> handle_background_span_end(m2, ctx, text)
               [] OTHER -> handle_auxiliary_span_end(m2, ctx, text)

RECURSIVE AssembledText(_)
AssembledText(syls) ==
    IF syls = <<>> THEN <<>>
    ELSE syls[1].text \o (IF syls[1].ends_with_space THEN <<" ">> ELSE <<>>)
         \o AssembledText(Tail(syls))

\* Both return [line_text, main_syllables, warnings].
finalize_p_for_line_mode(line_text_accumulator, syllables_accumulator) ==
    LET from_syllables == trim(line_text_accumulator) = <<>> /\ syllables_accumulator # <<>>
        line_text_content == IF from_syllables THEN AssembledText(syllables_accumulator)
                             ELSE line_text_accumulator
    IN  [ line_text |-> Some(normalize_text_whitespace(line_text_content)),
          main_syllables |-> <<>>,
          warnings |-> (IF from_syllables THEN <<"line_text_from_syllables">> ELSE <<>>) \o
                       (IF syllables_accumulator # <<>>
                        THEN <<"syllable_times_ignored">> ELSE <<>>) ]

finalize_p_for_word_mode(start_ms, end_ms, syllables_accumulator, line_text_accumulator) ==
    LET unhandled_p_text == normalize_text_whitespace(line_text_accumulator)
        whole == [ text |-> unhandled_p_text, start_ms |-> start_ms,
                   end_ms |-> Max(end_ms, start_ms),
                   duration_ms |-> Some(saturating_sub(end_ms, start_ms)),
                   ends_with_space |-> FALSE ]
        main == IF unhandled_p_text # <<>> /\ syllables_accumulator = <<>>
                THEN <<whole>> ELSE syllables_accumulator
    IN  [ line_text |-> IF main # <<>> THEN Some(trim_end(AssembledText(main))) ELSE None,
          main_syllables |-> main,
          warnings |-> IF unhandled_p_text = <<>> THEN <<>>
                       ELSE IF syllables_accumulator # <<>> THEN <<"unwrapped_text_ignored">>
                       ELSE IF start_ms > end_ms THEN <<"p_start_after_end">>
                       ELSE <<>> ]

\* The syllables left as they are.
NoWholeLineSyllable(syllables, line_text, start_ms, end_ms) == syllables

\* A line with text, no syllable and a positive duration gets one syllable
\* that spans the line.
WholeLineSyllable(syllables, line_text, start_ms, end_ms) ==
    IF syllables = <<>> /\ line_text # None /\ line_text[1] # <<>> /\ end_ms > start_ms
    THEN <<Syl(line_text[1], start_ms, end_ms)>>
    ELSE syllables

finalize_p_element(m, p_data) ==
    LET mode == IF m.is_line_timing_mode
                THEN finalize_p_for_line_mode(p_data.line_text_accumulator,
                                              p_data.syllables_accumulator)
                ELSE finalize_p_for_word_mode(p_data.start_ms, p_data.end_ms,
                                              p_data.syllables_accumulator,
                                              p_data.line_text_accumulator)
        bg_data == p_data.background_section_accumulator
        background_section ==
            IF bg_data # None /\ (bg_data[1].syllables # <<>> \/ bg_data[1].translations # <<>>
                                  \/ bg_data[1].romanizations # <<>>)
            THEN Some([bg_data[1] EXCEPT !.syllables = SetLastEndsWithSpace(@, FALSE)])
            ELSE None
        syllables == SetLastEndsWithSpace(mode.main_syllables, FALSE)
        main_syllables ==
            WholeLineSyllable(syllables, mode.line_text, p_data.start_ms, p_data.end_ms)
        final_line ==
            [ start_ms |-> p_data.start_ms, end_ms |-> p_data.end_ms,
              line_text |-> mode.line_text, main_syllables |-> main_syllables,
              translations |-> p_data.translations_accumulator,
              romanizations |-> p_data.romanizations_accumulator,
              agent |-> IF p_data.agent = None THEN Some(V1) ELSE p_data.agent,
              background_section |-> background_section,
              song_part |-> p_data.song_part, itunes_key |-> p_data.itunes_key ]
        empty == /\ main_syllables = <<>>
                 /\ (mode.line_text = None \/ mode.line_text[1] = <<>>)
                 /\ final_line.translations = <<>> /\ final_line.romanizations = <<>>
                 /\ background_section = None
                 /\ p_data.end_ms <= p_data.start_ms
    IN  [m EXCEPT !.warnings = @ \o mode.warnings,
                  !.lines = IF empty THEN @ ELSE Append(@, final_line)]

\* The paragraph's data as it was collected.
NotBackfilled(m, p_data) == p_data

\* The translation of the metadata table, unless the line has one of that text.
Backfilled(m, p_data) ==
    IF p_data.itunes_key # None /\ MapHas(m.translation_map, p_data.itunes_key[1])
    THEN LET entry == MapGet(m.translation_map, p_data.itunes_key[1]) IN
         IF \A k \in 1..Len(p_data.translations_accumulator) :
                p_data.translations_accumulator[k].text # entry[1]
         THEN [p_data EXCEPT !.translations_accumulator =
                                 Append(@, [text |-> entry[1], lang |-> entry[2]])]
         ELSE p_data
    ELSE p_data

\* The events the paragraph handler has no arm for, handed to the global
\* handler.
handle_p_event_falling_through(m, e) ==
    CASE e.type = "Start" /\ e.name = "span" -> process_span_start(m, e)
      [] e.type = "Text" -> process_text_event(m, e.text)
      [] e.type = "GeneralRef" ->
            IF DecodeEntity(e.name) = <<>> THEN Warn(m, "unknown_entity")
            ELSE IF m.current_p_element_data # None THEN PushChars(m, DecodeEntity(e.name))
            ELSE m
      [] e.type = "End" /\ e.name = "br" -> Warn(m, "br_ignored")
      [] e.type = "End" /\ e.name = "p" ->
            [(IF m.current_p_element_data # None
              THEN finalize_p_element([m EXCEPT !.current_p_element_data = None],
                                      Backfilled(m, PData(m)))
              ELSE m) EXCEPT !.in_p = FALSE, !.span_stack = <<>>,
                             !.last_syllable_info = "None"]
      [] e.type = "End" /\ e.name = "span" -> process_span_end(m)
      [] OTHER -> handle_global_event(m, e, FALSE)

handle_p_event(m, e) ==
    CASE e.type = "Start" /\ e.name = "span" -> process_span_start(m, e)
      [] e.type = "Text" -> process_text_event(m, e.text)
      [] e.type = "GeneralRef" ->
            IF DecodeEntity(e.name) = <<>> THEN Warn(m, "unknown_entity")
            ELSE IF m.current_p_element_data # None THEN PushChars(m, DecodeEntity(e.name))
            ELSE m
      [] e.type = "End" /\ e.name = "br" -> Warn(m, "br_ignored")
      [] e.type = "End" /\ e.name = "p" ->
            [(IF m.current_p_element_data # None
              THEN finalize_p_element([m EXCEPT !.current_p_element_data = None],
                                      Backfilled(m, PData(m)))
              ELSE m) EXCEPT !.in_p = FALSE, !.span_stack = <<>>,
                             !.last_syllable_info = "None"]
      [] e.type = "End" /\ e.name = "span" -> process_span_end(m)
      [] OTHER -> m

(***************************************************************************)
(* 6. parse_ttml_for_amll_player                                           *)
(***************************************************************************)
get_config_name_from_mode(mode) ==
    CASE mode = "s2t" -> Some("s2t.json")
      [] mode = "t2s" -> Some("t2s.json")
      [] mode = "s2tw" -> Some("s2tw.json")
      [] mode = "tw2s" -> Some("tw2s.json")
      [] mode = "s2hk" -> Some("s2hk.json")
      [] mode = "hk2s" -> Some("hk2s.json")
      [] OTHER -> None

\* format!("{}", n) of a number
RECURSIVE Decimal(_)
Decimal(n) ==
    LET digit == <<"0", "1", "2", "3", "4", "5", "6", "7", "8", "9">>[(n % 10) + 1]
    IN  IF n < 10 THEN <<digit>> ELSE Decimal(n \div 10) \o <<digit>>

CHORUS_KEYWORDS == << <<"he">>, <<"he", "chang">>, <<"A", "l", "l">> >>
ChorusId == <<"v", "1", "0", "0", "0">>

eq_ignore_ascii_case(a, b) == to_lowercase(a) = to_lowercase(b)

RECURSIVE StandardizeFrom(_, _, _, _)
StandardizeFrom(ls, i, name_to_id_map, next_agent_num) ==
    IF i > Len(ls) THEN ls
    ELSE IF ls[i].agent = None THEN StandardizeFrom(ls, i + 1, name_to_id_map, next_agent_num)
    ELSE LET agent_name == ls[i].agent[1] IN
         IF \E k \in 1..Len(CHORUS_KEYWORDS) : eq_ignore_ascii_case(CHORUS_KEYWORDS[k], agent_name)
         THEN StandardizeFrom([ls EXCEPT ![i].agent = Some(ChorusId)], i + 1,
                              name_to_id_map, next_agent_num)
         ELSE IF MapHas(name_to_id_map, agent_name)
         THEN StandardizeFrom([ls EXCEPT ![i].agent = Some(MapGet(name_to_id_map, agent_name))],
                              i + 1, name_to_id_map, next_agent_num)
         ELSE LET new_id == <<"v">> \o Decimal(next_agent_num) IN
              StandardizeFrom([ls EXCEPT ![i].agent = Some(new_id)], i + 1,
                              MapInsert(name_to_id_map, agent_name, new_id),
                              next_agent_num + 1)

\* Ids numbered by the position of the line instead of by the first
\* appearance of the name.
standardize_agent_ids_by_position(ls) ==
    [ i \in 1..Len(ls) |->
        IF ls[i].agent = None THEN ls[i]
        ELSE IF \E k \in 1..Len(CHORUS_KEYWORDS) :
                    eq_ignore_ascii_case(CHORUS_KEYWORDS[k], ls[i].agent[1])
        THEN [ls[i] EXCEPT !.agent = Some(ChorusId)]
        ELSE [ls[i] EXCEPT !.agent = Some(<<"v">> \o Decimal(i))] ]

standardize_agent_ids(ls) == StandardizeFrom(ls, 1, <<>>, 1)

RECURSIVE DuetFrom(_, _, _, _)
DuetFrom(ls, i, agent_to_duet_map, last_duet_status) ==
    IF i > Len(ls) THEN agent_to_duet_map
    ELSE IF ls[i].agent = None \/ ls[i].agent = Some(ChorusId)
            \/ MapHas(agent_to_duet_map, ls[i].agent[1])
    THEN DuetFrom(ls, i + 1, agent_to_duet_map, last_duet_status)
    ELSE DuetFrom(ls, i + 1,
                  Append(agent_to_duet_map, <<ls[i].agent[1], ~last_duet_status>>),
                  ~last_duet_status)

\* last_duet_status starting at false, which gives the first singer the
\* side true.
assign_duet_view_from_false(ls) == DuetFrom(ls, 1, <<>>, FALSE)

assign_duet_view(ls) == DuetFrom(ls, 1, <<>>, TRUE)

has_agents(ls) == \E i \in 1..Len(ls) : ls[i].agent # Some(V1)

\* lyric_optimizer::apply_smoothing: the line lists it may leave.  It moves
\* syllable boundaries and nothing else; here either no boundary, or the
\* boundary two adjacent syllables of a line share, by one millisecond.
SmoothedSyllables(syls) ==
    [ k \in 1..Len(syls) |->
        IF k < Len(syls) /\ syls[k].end_ms = syls[k + 1].start_ms
           /\ syls[k + 1].end_ms > syls[k + 1].start_ms
        THEN [syls[k] EXCEPT !.end_ms = @ + 1,
                             !.duration_ms = Some(syls[k].end_ms + 1 - syls[k].start_ms)]
        ELSE IF k > 1 /\ syls[k - 1].end_ms = syls[k].start_ms
                /\ syls[k].end_ms > syls[k].start_ms
        THEN [syls[k] EXCEPT !.start_ms = @ + 1,
                             !.duration_ms = Some(syls[k].end_ms - (syls[k].start_ms + 1))]
        ELSE syls[k] ]

apply_smoothing(ls, smoothing_options) ==
    { ls, [i \in 1..Len(ls) |->
              [ls[i] EXCEPT !.main_syllables =
                   IF Len(@) = 2 THEN SmoothedSyllables(@) ELSE @]] }

\* converter.convert of one character, by the table the configuration names.
ConvertChar(config_name, c) ==
    IF config_name \in {"s2t.json", "s2tw.json", "s2hk.json"}
    THEN IF c = "ci" THEN "ciT" ELSE c
    ELSE IF c = "ciT" THEN "ci" ELSE c

\* convert; converter_ok is whether the converter could be constructed.
convert(text, config_name, converter_ok) ==
    IF converter_ok THEN [k \in 1..Len(text) |-> ConvertChar(config_name, text[k])]
    ELSE text

RECURSIVE ConcatTexts(_)
ConcatTexts(syls) == IF syls = <<>> THEN <<>> ELSE syls[1].text \o ConcatTexts(Tail(syls))

\* ChineseConversionProcessor::process
process(ls, config_name, converter_ok) ==
    IF config_name = "" THEN ls
    ELSE [ i \in 1..Len(ls) |->
            LET syls == [k \in 1..Len(ls[i].main_syllables) |->
                            [ls[i].main_syllables[k] EXCEPT
                                !.text = convert(@, config_name, converter_ok)]]
            IN  [ls[i] EXCEPT
                    !.main_syllables = syls,
                    !.line_text = IF @ # None
                                  THEN Some(convert(@[1], config_name, converter_ok))
                                  ELSE IF syls # <<>> THEN Some(ConcatTexts(syls))
                                  ELSE None,
                    !.translations = [k \in 1..Len(@) |->
                        [@[k] EXCEPT !.text = convert(@, config_name, converter_ok)]]] ]

LyricWord(s) ==
    [ start_time |-> s.start_ms, end_time |-> s.end_ms,
      word |-> s.text \o (IF s.ends_with_space THEN <<" ">> ELSE <<>>) ]

\* the texts joined with " / "
RECURSIVE JoinTexts(_)
JoinTexts(entries) ==
    IF entries = <<>> THEN <<>>
    ELSE IF Len(entries) = 1 THEN entries[1].text
    ELSE entries[1].text \o <<" ", "/", " ">> \o JoinTexts(Tail(entries))

\* The output lines of one parsed line, the main line made whether or not
\* it has words.
LinesForFrontendAlwaysMain(rust_line, duets) ==
    LET is_duet == IF rust_line.agent # None /\ MapHas(duets, rust_line.agent[1])
                   THEN MapGet(duets, rust_line.agent[1]) ELSE FALSE
        main ==
                     << [ words |-> [k \in 1..Len(rust_line.main_syllables) |->
                                        LyricWord(rust_line.main_syllables[k])],
                          translated_lyric |-> JoinTexts(rust_line.translations),
                          roman_lyric |-> JoinTexts(rust_line.romanizations),
                          is_bg |-> FALSE, is_duet |-> is_duet,
                          start_time |-> rust_line.start_ms,
                          end_time |-> rust_line.end_ms ] >>
        bg_section == rust_line.background_section
        bg == IF bg_section = None \/ bg_section[1].syllables = <<>> THEN <<>>
              ELSE << [ words |-> [k \in 1..Len(bg_section[1].syllables) |->
                                      LyricWord(bg_section[1].syllables[k])],
                        translated_lyric |-> JoinTexts(bg_section[1].translations),
                        roman_lyric |-> JoinTexts(bg_section[1].romanizations),
                        is_bg |-> TRUE,
                        is_duet |-> rust_line.main_syllables # <<>> /\ is_duet,
                        start_time |-> bg_section[1].start_ms,
                        end_time |-> bg_section[1].end_ms ] >>
    IN  main \o bg

\* The closure of the flat_map: the output lines of one parsed line.
LinesForFrontend(rust_line, duets) ==
    LET is_duet == IF rust_line.agent # None /\ MapHas(duets, rust_line.agent[1])
                   THEN MapGet(duets, rust_line.agent[1]) ELSE FALSE
        main == IF rust_line.main_syllables = <<>> THEN <<>>
                ELSE << [ words |-> [k \in 1..Len(rust_line.main_syllables) |->
                                        LyricWord(rust_line.main_syllables[k])],
                          translated_lyric |-> JoinTexts(rust_line.translations),
                          roman_lyric |-> JoinTexts(rust_line.romanizations),
                          is_bg |-> FALSE, is_duet |-> is_duet,
                          start_time |-> rust_line.start_ms,
                          end_time |-> rust_line.end_ms ] >>
        bg_section == rust_line.background_section
        bg == IF bg_section = None \/ bg_section[1].syllables = <<>> THEN <<>>
              ELSE << [ words |-> [k \in 1..Len(bg_section[1].syllables) |->
                                      LyricWord(bg_section[1].syllables[k])],
                        translated_lyric |-> JoinTexts(bg_section[1].translations),
                        roman_lyric |-> JoinTexts(bg_section[1].romanizations),
                        is_bg |-> TRUE,
                        is_duet |-> rust_line.main_syllables # <<>> /\ is_duet,
                        start_time |-> bg_section[1].start_ms,
                        end_time |-> bg_section[1].end_ms ] >>
    IN  main \o bg

RECURSIVE FinalLines(_, _)
FinalLines(ls, duets) ==
    IF ls = <<>> THEN <<>>
    ELSE LinesForFrontend(ls[1], duets) \o FinalLines(Tail(ls), duets)

\* The statements of parse_ttml_for_amll_player in the order they are written.
NextStageDuetAfterSplit(s) ==
    CASE s = "parse" -> "strip" [] s = "strip" -> "agents" [] s = "agents" -> "split"
      [] s = "split" -> "duet" [] s = "duet" -> "smooth" [] s = "smooth" -> "convert"
      [] s = "convert" -> "map" [] OTHER -> "done"

NextStage(s) ==
    CASE s = "parse" -> "strip" [] s = "strip" -> "agents" [] s = "agents" -> "duet"
      [] s = "duet" -> "split" [] s = "split" -> "smooth" [] s = "smooth" -> "convert"
      [] s = "convert" -> "map" [] OTHER -> "done"

-----------------------------------------------------------------------------
\* The contents parse_ttml is run on, as the events the reader yields.
Span(attrs, content) == <<StartEv("", "span", attrs)>> \o content \o <<EndEv("", "span")>>
Para(attrs, content) == <<StartEv("", "p", attrs)>> \o content \o <<EndEv("", "p")>>
Element(prefix, name, attrs, content) ==
    <<StartEv(prefix, name, attrs)>> \o content \o <<EndEv(prefix, name)>>
Timed(begin, end) == [begin |-> begin, end |-> end]
Txt(chars) == <<TextEv(chars)>>

T0 == <<"0">>
T5 == <<"5">>
T9 == <<"9">>
BadTime == <<"a">>

\* <span>a</span> <span>b</span>
PWords(key) ==
    Para([begin |-> T0, end |-> T9, key |-> key],
         Span(Timed(T0, T5), Txt(<<"a">>)) \o Txt(<<" ">>) \o Span(Timed(T5, T9), Txt(<<"b">>)))

\* <span>T: &lt; &gt;</span>
PEntities ==
    Para(Timed(T0, T5),
         Span(Timed(T0, T5),
              <<TextEv(<<"T", ":", " ">>), RefEv("lt"), TextEv(<<" ">>), RefEv("gt")>>))

PMarkerInline == Para(Timed(T0, T5), Span(Timed(T0, T5), Txt(<<"A", ":", "x">>)))
PMarkerPure == Para(Timed(T0, T5), Span(Timed(T0, T5), Txt(<<"B", ":">>)))
PChorus == Para(Timed(T5, T9), Span(Timed(T5, T9), Txt(<<"A", "l", "l", ":", "y">>)))

\* text directly in <p>
PDirect == Para([begin |-> T0, end |-> T9, key |-> "L2"], Txt(<<"x", " ", "ci">>))

PBackground ==
    Para([begin |-> T0, end |-> T9, key |-> "L1"],
         Span(Timed(T0, T5), Txt(<<"a">>))
         \o Span([ttm_role |-> "x-bg"],
                 Span(Timed(T5, T9), Txt(<<"(", "b", ")">>))
                 \o Span([ttm_role |-> "x-translation", lang |-> "en"], Txt(<<"t">>)))
         \o Span([role |-> "x-translation"], Txt(<<"t", " ", " ", "r">>))
         \o Span([ttm_role |-> "x-roman", scheme |-> "latn"], Txt(<<"r">>)))

\* a line that has a background section and no main syllable
PBgDirect ==
    Para([begin |-> T0, end |-> T9, ttm_agent |-> <<"v", "2">>],
         Span([ttm_role |-> "x-bg", begin |-> T5, end |-> T9], Txt(<<"FLP", "c", "FRP">>)))

PAgentV2 ==
    Para([begin |-> T0, end |-> T5, ttm_agent |-> <<"v", "2">>, song_part |-> "Verse"],
         Span(Timed(T0, T5), Txt(<<"ci">>)))

PEmpty == Para(Timed(T5, T5), <<>>)

\* a keyed line with an inline translation that names its language
PInlineTranslation ==
    Para([begin |-> T0, end |-> T5, key |-> "L1"],
         Span(Timed(T0, T5), Txt(<<"a">>))
         \o Span([ttm_role |-> "x-translation", lang |-> "en"], Txt(<<"t">>)))

\* what the parser only warns about
POdd ==
    Para(Timed(T5, T0),
         Element("", "br", <<>>, <<>>) \o <<RefEv("nbsp")>>
         \o Span(<<>>, Txt(<<"u">>)) \o Span(Timed(T5, T0), Txt(<<"w", " ">>))
         \o Txt(<<" ">>) \o Span(Timed(T0, T5), Txt(<<" ">>)) \o Txt(<<"z">>))

\* the text of the last main span and of the last background span ends with
\* a space
PTrailingSpaces ==
    Para(Timed(T0, T9),
         Span([ttm_role |-> "x-bg"], Span(Timed(T5, T9), Txt(<<"b", " ">>)))
         \o Span(Timed(T0, T5), Txt(<<"a", " ">>)))

\* a timed span that holds one space, after a syllable and as the first span
PSpaceSpan ==
    Para(Timed(T0, T9), Span(Timed(T0, T5), Txt(<<"a">>)) \o Span(Timed(T5, T9), Txt(<<" ">>)))

PSpaceSpanFirst ==
    Para(Timed(T0, T9), Span(Timed(T0, T5), Txt(<<" ">>)) \o Span(Timed(T5, T9), Txt(<<"b">>)))

\* a timed span, then a span that has a begin and no end
PHalfTimed ==
    Para(Timed(T0, T9), Span(Timed(T0, T5), Txt(<<"a">>)) \o Span([begin |-> T5], Txt(<<"u">>)))

\* a background span whose own text stands before its nested span
PBgTextFirst ==
    Para(Timed(T0, T9),
         Span([ttm_role |-> "x-bg", begin |-> T0, end |-> T9],
              Txt(<<"x">>) \o Span(Timed(T5, T9), Txt(<<"b">>))))

\* a paragraph opened inside a span of a paragraph
PNested ==
    Para(Timed(T0, T9),
         Span(Timed(T0, T5), Para(Timed(T5, T9), Txt(<<"x">>)) \o Txt(<<"a">>)))

\* direct text in a paragraph that ends before it begins
PBackwards == Para(Timed(T9, T0), Txt(<<"x">>))

\* a paragraph with nothing but a key
PEmptyKeyed == Para([begin |-> T5, end |-> T5, key |-> "L1"], <<>>)

GoodParagraphs ==
    { PWords("L1"), PWords("L3"), PEntities, PMarkerInline, PMarkerPure, PChorus, PDirect,
      PBackground, PBgDirect, PAgentV2, PEmpty, POdd, PInlineTranslation, PTrailingSpaces,
      PEmptyKeyed, PSpaceSpan, PSpaceSpanFirst, PHalfTimed,
      PBgTextFirst }

PairParagraphs == { PWords("L1"), PMarkerInline, PMarkerPure, PChorus, PAgentV2, PBgDirect }

\* a further <tt> start, declaring line timing, between two paragraphs
PSecondRoot == PWords("L1") \o Element("", "tt", [timing |-> "line"], PWords("L3"))

\* a <metadata> element inside a paragraph
PMetadataInside ==
    Para(Timed(T0, T9),
         Span(Timed(T0, T5), Txt(<<"a">>))
         \o Element("", "metadata", <<>>, Element("", "songwriter", <<>>, Txt(<<"x">>)))
         \o Span(Timed(T5, T9), Txt(<<"b">>)))

\* two singers with a chorus line between them
PThreeSingers == PMarkerInline \o PChorus \o PMarkerPure \o PWords("L1")

\* what makes parse_ttml fail, between the paragraphs of <div>
FatalFragments ==
    { Para([begin |-> BadTime, end |-> T5], Span(Timed(T0, T5), Txt(<<"a">>))),
      Para([begin |-> T0, end |-> BadTime], <<>>),
      Para(Timed(T0, T5), Span(Timed(BadTime, T5), Txt(<<"a">>))),
      Para(Timed(T0, T5), Span(Timed(T0, T5), Txt(<<"a">>)) \o Span([end |-> BadTime], <<>>)),
      Para(Timed(T0, T5), Span([ttm_role |-> "x-translation", begin |-> BadTime], Txt(<<"t">>))),
      <<StartEv("", "p", Timed(T0, T5)), TextEv(<<"a">>), ErrorEv>>,
      <<ErrorEv>> }

NoMetadata == <<>>

AgentsAndTranslations ==
    Element("", "metadata", <<>>,
        Element("ttm", "agent", [id |-> "v1", type |-> "group"],
                Element("ttm", "name", <<>>, Txt(<<"A", "l">>)))
        \o Element("ttm", "agent", [id |-> "v1"], <<>>)
        \o Element("", "meta", [mkey |-> "artist", mvalue |-> <<"B">>], <<>>)
        \o Element("ttm", "title", <<>>, <<TextEv(<<"T", " ">>), RefEv("amp"), RefEv("nbsp")>>)
        \o Element("", "iTunesMetadata", <<>>,
               Element("", "translations", <<>>,
                   Element("", "translation", [lang |-> "en"],
                       Element("", "text", [for |-> "L1"],
                               Span(<<>>, Txt(<<"T", "h", "i", "s">>)) \o Txt(<<" ">>)
                               \o Span(<<>>, Txt(<<"i", "s">>)))))
               \o Element("", "songwriters", <<>>,
                      Element("", "songwriter", <<>>, Txt(<<"B", "o", " ">>)))))

\* two singers declared with the same xml:id, each with a name
DuplicateAgents ==
    Element("", "metadata", <<>>,
        Element("ttm", "agent", [id |-> "v1"],
                Element("ttm", "name", <<>>, Txt(<<"A", "l">>)))
        \o Element("ttm", "agent", [id |-> "v1"],
                   Element("ttm", "name", <<>>, Txt(<<"B">>))))

PlainTranslations ==
    Element("", "metadata", <<>>,
        Element("", "iTunesMetadata", <<>>,
            Element("", "translations", <<>>,
                Element("", "translation", <<>>,
                    Element("", "text", [for |-> "L1"], Txt(<<"t">>))
                    \o Element("", "text", <<>>, Txt(<<"n">>))
                    \o Element("", "text", [for |-> "L2"], <<>>)))))

\* the reader fails while read_text reads a <text> element
BrokenTranslations ==
    Element("", "metadata", <<>>,
        Element("", "iTunesMetadata", <<>>,
            Element("", "translations", <<>>,
                Element("", "translation", <<>>,
                    <<StartEv("", "text", [for |-> "L1"]), TextEv(<<"t">>), ErrorEv>>))))

BrokenMetadata == <<StartEv("", "metadata", <<>>), ErrorEv>>

\* times that do not decode, where no handler reads them
IgnoredBadTimes ==
    Para(Timed(BadTime, T5), <<>>) \o Span(Timed(T0, BadTime), <<>>)

TtAttributes == { <<>>, [timing |-> "line"], [lang |-> "ja"], [timing |-> "word"] }

Document(tt, head, paragraphs) ==
    Element("", "tt", tt,
        head \o Element("", "body", <<>>,
                    Element("", "div", [song_part |-> "Chorus"], paragraphs)))

RECURSIVE Repeat(_, _)
Repeat(events, n) == IF n = 0 THEN <<>> ELSE events \o Repeat(events, n - 1)

\* the most paragraphs finalized before the one that fails
MaxGoodParagraphs == 2

FatalDocuments ==
    { Document(<<>>, NoMetadata, Repeat(PWords("L1"), n) \o f \o tl) :
        n \in 0..MaxGoodParagraphs, f \in FatalFragments, tl \in {<<>>, PEntities} }
    \cup { Document(<<>>, h, ps) : h \in {BrokenTranslations, BrokenMetadata},
                                   ps \in {<<>>, PWords("L1")} }

GoodDocuments ==
    { Document(tt, h, ps) : tt \in TtAttributes,
                            h \in {NoMetadata, AgentsAndTranslations, PlainTranslations},
                            ps \in GoodParagraphs }
    \cup { Document(<<>>, NoMetadata, p1 \o p2) : p1, p2 \in PairParagraphs }
    \cup { Document(<<>>, AgentsAndTranslations, PWords("L1") \o PBackground \o PWords("L3")),
           Document(<<>>, IgnoredBadTimes, PWords("L1")),
           Document(<<>>, DuplicateAgents, PWords("L1")),
           Document(<<>>, NoMetadata, PNested),
           Document([timing |-> "word"], NoMetadata, PBackwards),
           Document(<<>>, NoMetadata, PThreeSingers),
           Document(<<>>, NoMetadata, PSecondRoot),
           Document(<<>>, NoMetadata, PMetadataInside),
           Document(<<>>, NoMetadata, <<>>) }

Documents == GoodDocuments \cup FatalDocuments

ChainOptions(split, mode, stripper, smoothing, recognizer) ==
    [ apply_auto_splitting |-> split, chinese_conversion_mode |-> mode,
      metadata_stripper |-> stripper, smoothing |-> smoothing,
      agent_recognizer |-> recognizer ]

\* SyllableSmoothingOptions::default(), the factor in hundredths
DefaultSmoothing ==
    [ factor_hundredths |-> 15, duration_threshold_ms |-> 50, gap_threshold_ms |-> 100,
      smoothing_iterations |-> 5 ]

DefaultAgentOptions == AgentOptions(TRUE, None, TRUE, TRUE, TRUE)

\* ProcessorChainOptions::default()
DefaultChainOptions == ChainOptions(FALSE, "", DefaultStripOptions, None, DefaultAgentOptions)

ChainOptionValues ==
    { DefaultChainOptions,
      ChainOptions(TRUE, "s2t", DefaultStripOptions, Some(DefaultSmoothing), DefaultAgentOptions),
      ChainOptions(TRUE, "none", StripOptions(FALSE, None, FALSE, TRUE, None, FALSE), None,
                   AgentOptions(FALSE, None, TRUE, TRUE, TRUE)),
      ChainOptions(FALSE, "hk2s", DefaultStripOptions, Some(DefaultSmoothing),
                   AgentOptions(TRUE, None, TRUE, FALSE, FALSE)),
      ChainOptions(FALSE, "", DefaultStripOptions, None,
                   AgentOptions(TRUE, Some(InvalidPattern), TRUE, TRUE, TRUE)),
      ChainOptions(FALSE, "t2s",
                   StripOptions(TRUE, None, FALSE, TRUE,
                                Some(<< InvalidPattern, Pattern({<<"B", ":">>}) >>), FALSE),
                   None, AgentOptions(FALSE, None, TRUE, TRUE, TRUE)) }

\* the contents every option value is tried on
ChainDocuments ==
    { Document(<<>>, NoMetadata, p1 \o p2) : p1, p2 \in PairParagraphs }
    \cup { Document(<<>>, AgentsAndTranslations, ps) : ps \in {PDirect, PBackground} }
    \cup { Document(<<>>, NoMetadata, PWords("L1") \o f) : f \in FatalFragments }
    \cup { Document(<<>>, NoMetadata, PThreeSingers) }

InitChain ==
    /\ parse_doc \in Documents
    /\ chain_options \in ChainOptionValues
    /\ chain_options = DefaultChainOptions \/ parse_doc \in ChainDocuments
    /\ parse_pos = 0 /\ parser = InitialParser /\ parse_result = NoResult
    /\ stage = "parse" /\ parsed_lines = <<>> /\ duet_map = <<>> /\ passes = <<>>
    /\ chain_result = NoResult
    /\ TimeIdle /\ SplitIdle /\ StripIdle /\ AgentIdle /\ CacheIdle /\ WsIdle /\ RegexIdle /\ ServerIdle

ParseError == [ok |-> FALSE, error |-> "ConvertError"]

\* What the loop of parse_ttml does with the state a handler left.
Handled(m) ==
    /\ parser' = [m EXCEPT !.skip = 0]
    /\ parse_pos' = parse_pos + 1 + m.skip
    /\ parse_result' = IF m.err THEN ParseError ELSE parse_result
    /\ UNCHANGED <<parse_doc, chain_options, stage, parsed_lines, duet_map, passes,
                   chain_result>>
    /\ UNCHANGED <<timeVars, splitVars, stripVars, agentVars, cacheVars, wsVars, regexVars,
                 serverVars>>

Reading ==
    /\ stage = "parse" /\ parse_result = NoResult
    /\ parse_pos < Len(parse_doc)
    /\ parse_doc[parse_pos + 1].type # "Error"

HandlePEvent ==
    /\ Reading /\ parser.in_p
    /\ Handled(handle_p_event(parser, parse_doc[parse_pos + 1]))

HandleMetadataEvent ==
    /\ Reading /\ ~parser.in_p /\ parser.in_metadata_section
    /\ Handled(handle_metadata_event(parser, parse_doc[parse_pos + 1], parse_doc,
                                     parse_pos + 1))

HandleGlobalEvent ==
    /\ Reading /\ ~parser.in_p /\ ~parser.in_metadata_section
    /\ Handled(handle_global_event(parser, parse_doc[parse_pos + 1],
                                   has_timed_span_tags(parse_doc)))

\* read_event_into returns Err
ReaderError ==
    /\ stage = "parse" /\ parse_result = NoResult
    /\ parse_pos < Len(parse_doc)
    /\ parse_doc[parse_pos + 1].type = "Error"
    /\ parse_result' = ParseError
    /\ parse_pos' = parse_pos + 1
    /\ UNCHANGED <<parse_doc, parser, chain_options, stage, parsed_lines, duet_map, passes,
                   chain_result>>
    /\ UNCHANGED <<timeVars, splitVars, stripVars, agentVars, cacheVars, wsVars, regexVars,
                 serverVars>>

\* Event::Eof: parse_ttml returns the document
EndOfInput ==
    /\ stage = "parse" /\ parse_result = NoResult
    /\ parse_pos >= Len(parse_doc)
    /\ parse_result' = [ ok |-> TRUE,
                         data |-> [ lines |-> parser.lines,
                                    raw_metadata |-> parser.raw_metadata,
                                    is_line_timed_source |-> parser.is_line_timing_mode,
                                    warnings |-> parser.warnings ] ]
    /\ UNCHANGED <<parse_doc, parse_pos, parser, chain_options, stage, parsed_lines,
                   duet_map, passes, chain_result>>
    /\ UNCHANGED <<timeVars, splitVars, stripVars, agentVars, cacheVars, wsVars, regexVars,
                 serverVars>>

ChainFrame ==
    /\ UNCHANGED <<parse_doc, parse_pos, parser, parse_result, chain_options>>
    /\ UNCHANGED <<timeVars, splitVars, stripVars, agentVars, cacheVars, wsVars, regexVars,
                 serverVars>>

\* parse_ttml has returned: the ? of the first statement
ParseReturned ==
    /\ stage = "parse" /\ parse_result # NoResult
    /\ passes' = Append(passes, "parse")
    /\ IF parse_result.ok
       THEN /\ parsed_lines' = parse_result.data.lines
            /\ stage' = NextStage(stage)
            /\ UNCHANGED chain_result
       ELSE /\ chain_result' = [ok |-> FALSE, error |-> parse_result.error]
            /\ stage' = "done"
            /\ UNCHANGED parsed_lines
    /\ UNCHANGED duet_map
    /\ ChainFrame

StripStage ==
    /\ stage = "strip"
    /\ IF chain_options.metadata_stripper.enabled
       THEN /\ parsed_lines' = strip_descriptive_metadata_lines(parsed_lines,
                                   chain_options.metadata_stripper)
            /\ passes' = Append(passes, "strip")
       ELSE UNCHANGED <<parsed_lines, passes>>
    /\ stage' = NextStage(stage)
    /\ UNCHANGED <<duet_map, chain_result>>
    /\ ChainFrame

\* recognize_agents and standardize_agent_ids; a panic ends the call
AgentStage ==
    /\ stage = "agents"
    /\ IF ~has_agents(parsed_lines) /\ chain_options.agent_recognizer.enabled
       THEN LET r == recognize_agents(parsed_lines, chain_options.agent_recognizer) IN
            /\ passes' = Append(passes, "agents")
            /\ IF r.panic
               THEN /\ chain_result' = [panic |-> TRUE]
                    /\ stage' = "done"
                    /\ UNCHANGED parsed_lines
               ELSE /\ parsed_lines' = standardize_agent_ids(r.lines)
                    /\ stage' = NextStage(stage)
                    /\ UNCHANGED chain_result
       ELSE /\ stage' = NextStage(stage)
            /\ UNCHANGED <<parsed_lines, passes, chain_result>>
    /\ UNCHANGED duet_map
    /\ ChainFrame

DuetStage ==
    /\ stage = "duet"
    /\ duet_map' = assign_duet_view(parsed_lines)
    /\ passes' = Append(passes, "duet")
    /\ stage' = NextStage(stage)
    /\ UNCHANGED <<parsed_lines, chain_result>>
    /\ ChainFrame

SplitStage ==
    /\ stage = "split"
    /\ IF chain_options.apply_auto_splitting
       THEN /\ parsed_lines' = apply_auto_word_splitting(parsed_lines)
            /\ passes' = Append(passes, "split")
       ELSE UNCHANGED <<parsed_lines, passes>>
    /\ stage' = NextStage(stage)
    /\ UNCHANGED <<duet_map, chain_result>>
    /\ ChainFrame

SmoothStage ==
    /\ stage = "smooth"
    /\ IF chain_options.smoothing # None
       THEN /\ parsed_lines' \in apply_smoothing(parsed_lines, chain_options.smoothing[1])
            /\ passes' = Append(passes, "smooth")
       ELSE UNCHANGED <<parsed_lines, passes>>
    /\ stage' = NextStage(stage)
    /\ UNCHANGED <<duet_map, chain_result>>
    /\ ChainFrame

ConvertStage ==
    /\ stage = "convert"
    /\ IF get_config_name_from_mode(chain_options.chinese_conversion_mode) # None
       THEN /\ \E converter_ok \in BOOLEAN :
                 parsed_lines' =
                     process(parsed_lines,
                             get_config_name_from_mode(chain_options.chinese_conversion_mode)[1],
                             converter_ok)
            /\ passes' = Append(passes, "convert")
       ELSE UNCHANGED <<parsed_lines, passes>>
    /\ stage' = NextStage(stage)
    /\ UNCHANGED <<duet_map, chain_result>>
    /\ ChainFrame

\* the mapping to the output lines, and Ok(TTMLLyric)
MapStage ==
    /\ stage = "map"
    /\ chain_result' = [ ok |-> TRUE, lines |-> FinalLines(parsed_lines, duet_map),
                         metadata |-> parse_result.data.raw_metadata ]
    /\ passes' = Append(passes, "map")
    /\ stage' = NextStage(stage)
    /\ UNCHANGED <<parsed_lines, duet_map>>
    /\ ChainFrame

Next ==
    \/ HandlePEvent \/ HandleMetadataEvent \/ HandleGlobalEvent
    \/ ReaderError \/ EndOfInput
    \/ ParseReturned \/ StripStage \/ AgentStage \/ DuetStage \/ SplitStage
    \/ SmoothStage \/ ConvertStage \/ MapStage

Spec == InitChain /\ [][Next]_vars

-----------------------------------------------------------------------------
(***************************************************************************)
(* 7. CONVERTER_CACHE: convert called from several threads.                *)
(*                                                                         *)
(* The steps of convert are the points where it touches the map: the       *)
(* lookup under a read guard, the entry under the shard's write guard, the *)
(* insertion, and the return that drops the guard the call still holds.    *)
(***************************************************************************)
MaxConvertCalls == 2

\* the shard of the map a key hashes to
ShardOf(name) == IF name = "s2tw.json" THEN 2 ELSE 1

\* the converter constructed by the k-th successful OpenCC::from_config_name
Converter(name, k) == [config |-> name, arc |-> k]

TotalBuilt == conv_built["s2t.json"] + conv_built["t2s.json"] + conv_built["s2tw.json"]

\* An insertion that constructs and stores whether or not the entry is
\* occupied, as a plain insert after the missed lookup would.
or_try_insert_with_always(cache, name, constructed) ==
    IF constructed.ok
    THEN [ ok |-> TRUE, value |-> constructed.value, built |-> TRUE,
           cache |-> [cache EXCEPT ![name] = Some(constructed.value)] ]
    ELSE [ ok |-> FALSE, built |-> FALSE, cache |-> cache ]

\* CONVERTER_CACHE.entry(name).or_try_insert_with(f): an occupied entry is
\* returned as it is and f does not run; a vacant one runs f and stores its
\* Ok value, or hands back its Err and stores nothing.
or_try_insert_with(cache, name, constructed) ==
    IF cache[name] # None
    THEN [ ok |-> TRUE, value |-> cache[name][1], built |-> FALSE, cache |-> cache ]
    ELSE IF constructed.ok
    THEN [ ok |-> TRUE, value |-> constructed.value, built |-> TRUE,
           cache |-> [cache EXCEPT ![name] = Some(constructed.value)] ]
    ELSE [ ok |-> FALSE, built |-> FALSE, cache |-> cache ]

InitConvert ==
    /\ TimeIdle /\ SplitIdle /\ StripIdle /\ AgentIdle /\ ParseIdle
    /\ CacheIdle /\ WsIdle /\ RegexIdle /\ ServerIdle

ConvertFrame ==
    UNCHANGED <<timeVars, splitVars, stripVars, agentVars, parseVars, wsVars, regexVars,
                serverVars>>

\* a thread enters convert(text, config_name)
ConvertCall ==
    \E t \in Threads, name \in ConfigNames :
        /\ conv_pc[t] = "idle"
        /\ conv_calls[t] < MaxConvertCalls
        /\ conv_pc' = [conv_pc EXCEPT ![t] = "get"]
        /\ conv_name' = [conv_name EXCEPT ![t] = name]
        /\ conv_used' = [conv_used EXCEPT ![t] = None]
        /\ conv_missed' = [conv_missed EXCEPT ![t] = FALSE]
        /\ UNCHANGED <<conv_cache, conv_lock, conv_calls, conv_built>>
        /\ ConvertFrame

\* CONVERTER_CACHE.get(config_name): waits while the shard is write-guarded;
\* a hit keeps the read guard until the call returns.
CacheGet ==
    \E t \in Threads :
        /\ conv_pc[t] = "get"
        /\ conv_lock[ShardOf(conv_name[t])].writer = 0
        /\ IF conv_cache[conv_name[t]] # None
           THEN /\ conv_used' = [conv_used EXCEPT ![t] = conv_cache[conv_name[t]]]
                /\ conv_lock' = [conv_lock EXCEPT ![ShardOf(conv_name[t])].readers = @ \cup {t}]
                /\ conv_pc' = [conv_pc EXCEPT ![t] = "convert"]
                /\ UNCHANGED conv_missed
           ELSE /\ conv_missed' = [conv_missed EXCEPT ![t] = TRUE]
                /\ conv_pc' = [conv_pc EXCEPT ![t] = "entry"]
                /\ UNCHANGED <<conv_used, conv_lock>>
        /\ UNCHANGED <<conv_cache, conv_name, conv_calls, conv_built>>
        /\ ConvertFrame

\* CONVERTER_CACHE.entry(config_name): takes the shard's write guard
CacheEntry ==
    \E t \in Threads :
        /\ conv_pc[t] = "entry"
        /\ conv_lock[ShardOf(conv_name[t])] = NoGuards
        /\ conv_lock' = [conv_lock EXCEPT ![ShardOf(conv_name[t])].writer = t]
        /\ conv_pc' = [conv_pc EXCEPT ![t] = "insert"]
        /\ UNCHANGED <<conv_cache, conv_name, conv_used, conv_missed, conv_calls, conv_built>>
        /\ ConvertFrame

\* .or_try_insert_with(|| OpenCC::from_config_name(config_name).map(Arc::new)):
\* Ok keeps the write guard in the returned reference, Err drops it.
CacheInsert ==
    \E t \in Threads, from_config_name_ok \in BOOLEAN :
        /\ conv_pc[t] = "insert"
        /\ LET name == conv_name[t]
               constructed ==
                   [ ok |-> from_config_name_ok,
                     value |-> Converter(name, TotalBuilt + 1) ]
               r == or_try_insert_with(conv_cache, name, constructed)
           IN  /\ conv_cache' = r.cache
               /\ conv_built' = [conv_built EXCEPT ![name] = IF r.built THEN @ + 1 ELSE @]
               /\ conv_used' = [conv_used EXCEPT ![t] = IF r.ok THEN Some(r.value) ELSE None]
               /\ conv_lock' = IF r.ok THEN conv_lock
                               ELSE [conv_lock EXCEPT ![ShardOf(name)].writer = 0]
        /\ conv_pc' = [conv_pc EXCEPT ![t] = "convert"]
        /\ UNCHANGED <<conv_name, conv_missed, conv_calls>>
        /\ ConvertFrame

\* converter.convert(text), or text.to_string(); the guard is dropped
ConvertReturn ==
    \E t \in Threads :
        /\ conv_pc[t] = "convert"
        /\ conv_lock' =
               [conv_lock EXCEPT ![ShardOf(conv_name[t])] =
                   [ writer |-> IF @.writer = t THEN 0 ELSE @.writer,
                     readers |-> @.readers \ {t} ]]
        /\ conv_pc' = [conv_pc EXCEPT ![t] = "idle"]
        /\ conv_calls' = [conv_calls EXCEPT ![t] = @ + 1]
        /\ UNCHANGED <<conv_cache, conv_name, conv_used, conv_missed, conv_built>>
        /\ ConvertFrame

NextConvert == ConvertCall \/ CacheGet \/ CacheEntry \/ CacheInsert \/ ConvertReturn

SpecConvert == InitConvert /\ [][NextConvert]_vars

-----------------------------------------------------------------------------
(***************************************************************************)
(* 8. ws-protocol: Body, to_body and parse_body.                           *)
(*                                                                         *)
(* A message is a record with its variant in the field type.  Bytes are    *)
(* numbers 0..255, a NullString is the sequence of its bytes, and an f64   *)
(* is the eight bytes of its bit pattern, least significant first.         *)
(***************************************************************************)
MaxWsWords == 2
MaxWsLines == 1

\* #[brw(little)]: an unsigned integer in k bytes
RECURSIVE LittleEndian(_, _)
LittleEndian(n, k) == IF k = 0 THEN <<>> ELSE <<n % 256>> \o LittleEndian(n \div 256, k - 1)

RECURSIVE FromLittleEndian(_)
FromLittleEndian(bytes) ==
    IF bytes = <<>> THEN 0 ELSE bytes[1] + 256 * FromLittleEndian(Tail(bytes))

\* What a read returns: the value and the bytes after it, or an error.
ReadOk(value, rest) == [ok |-> TRUE, value |-> value, rest |-> rest]
ReadErr == [ok |-> FALSE]

ReadUnsigned(bytes, k) ==
    IF Len(bytes) < k THEN ReadErr
    ELSE ReadOk(FromLittleEndian(SubSeq(bytes, 1, k)), SubSeq(bytes, k + 1, Len(bytes)))

ReadCount(bytes, k) ==
    IF Len(bytes) < k THEN ReadErr
    ELSE ReadOk(SubSeq(bytes, 1, k), SubSeq(bytes, k + 1, Len(bytes)))

\* NullString: the bytes, then a zero byte
WriteNullString(s) == s \o <<0>>

RECURSIVE ReadNullStringFrom(_, _)
ReadNullStringFrom(bytes, acc) ==
    IF bytes = <<>> THEN ReadErr
    ELSE IF bytes[1] = 0 THEN ReadOk(acc, Tail(bytes))
    ELSE ReadNullStringFrom(Tail(bytes), Append(acc, bytes[1]))

ReadNullString(bytes) == ReadNullStringFrom(bytes, <<>>)

\* f64: PartialEq of two bit patterns
IsNaN(bits) ==
    /\ bits[8] % 128 = 127 /\ bits[7] >= 240
    /\ (bits[7] % 16 # 0 \/ \E k \in 1..6 : bits[k] # 0)
IsZero(bits) == bits[8] % 128 = 0 /\ \A k \in 1..7 : bits[k] = 0
F64Eq(a, b) == ~IsNaN(a) /\ ~IsNaN(b) /\ (a = b \/ (IsZero(a) /\ IsZero(b)))

\* Artist
WriteArtist(a) == WriteNullString(a.id) \o WriteNullString(a.name)

ReadArtist(bytes) ==
    LET id == ReadNullString(bytes) IN
    IF ~id.ok THEN ReadErr
    ELSE LET name == ReadNullString(id.rest) IN
         IF ~name.ok THEN ReadErr
         ELSE ReadOk([id |-> id.value, name |-> name.value], name.rest)

\* LyricWord: roman_word is #[brw(ignore)], neither written nor read
WriteLyricWord(w) ==
    LittleEndian(w.start_time, 8) \o LittleEndian(w.end_time, 8) \o WriteNullString(w.word)

ReadLyricWord(bytes) ==
    LET start_time == ReadUnsigned(bytes, 8) IN
    IF ~start_time.ok THEN ReadErr
    ELSE LET end_time == ReadUnsigned(start_time.rest, 8) IN
         IF ~end_time.ok THEN ReadErr
         ELSE LET word == ReadNullString(end_time.rest) IN
              IF ~word.ok THEN ReadErr
              ELSE ReadOk([ start_time |-> start_time.value, end_time |-> end_time.value,
                            word |-> word.value, roman_word |-> <<>> ], word.rest)

\* #[br(count = size)] over a reader of one element
RECURSIVE ReadVec(_, _, _, _)
ReadVec(Read(_), bytes, count, acc) ==
    IF count = 0 THEN ReadOk(acc, bytes)
    ELSE LET item == Read(bytes) IN
         IF ~item.ok THEN ReadErr
         ELSE ReadVec(Read, item.rest, count - 1, Append(acc, item.value))

RECURSIVE WriteVec(_, _)
WriteVec(Write(_), items) ==
    IF items = <<>> THEN <<>> ELSE Write(items[1]) \o WriteVec(Write, Tail(items))

\* LyricLine: size is calculated from words, flag from is_bg and is_duet
WriteLyricLine(l) ==
    LittleEndian(l.start_time, 8) \o LittleEndian(l.end_time, 8)
    \o LittleEndian(Len(l.words), 4) \o WriteVec(WriteLyricWord, l.words)
    \o WriteNullString(l.translated_lyric) \o WriteNullString(l.roman_lyric)
    \o <<(IF l.is_bg THEN 1 ELSE 0) + (IF l.is_duet THEN 2 ELSE 0)>>

ReadLyricLine(bytes) ==
    LET start_time == ReadUnsigned(bytes, 8) IN
    IF ~start_time.ok THEN ReadErr
    ELSE LET end_time == ReadUnsigned(start_time.rest, 8) IN
    IF ~end_time.ok THEN ReadErr
    ELSE LET size == ReadUnsigned(end_time.rest, 4) IN
    IF ~size.ok THEN ReadErr
    ELSE LET words == ReadVec(ReadLyricWord, size.rest, size.value, <<>>) IN
    IF ~words.ok THEN ReadErr
    ELSE LET translated_lyric == ReadNullString(words.rest) IN
    IF ~translated_lyric.ok THEN ReadErr
    ELSE LET roman_lyric == ReadNullString(translated_lyric.rest) IN
    IF ~roman_lyric.ok THEN ReadErr
    ELSE LET flag == ReadUnsigned(roman_lyric.rest, 1) IN
    IF ~flag.ok THEN ReadErr
    ELSE ReadOk([ start_time |-> start_time.value, end_time |-> end_time.value,
                  words |-> words.value, translated_lyric |-> translated_lyric.value,
                  roman_lyric |-> roman_lyric.value,
                  is_bg |-> flag.value % 2 # 0, is_duet |-> (flag.value \div 2) % 2 # 0 ],
                flag.rest)

\* #[brw(magic(..u16))] of the variants, in the order they are declared
BodyVariants ==
    << "Ping", "Pong", "SetMusicInfo", "SetMusicAlbumCoverImageURI",
       "SetMusicAlbumCoverImageData", "OnPlayProgress", "OnVolumeChanged", "OnPaused",
       "OnResumed", "OnAudioData", "SetLyric", "SetLyricFromTTML", "Pause", "Resume",
       "ForwardSong", "BackwardSong", "SetVolume", "SeekPlayProgress" >>

Magic(type) == (CHOOSE k \in 1..Len(BodyVariants) : BodyVariants[k] = type) - 1

\* Body::write
WriteBody(b) ==
    LittleEndian(Magic(b.type), 2) \o
    CASE b.type = "SetMusicInfo" ->
            WriteNullString(b.music_id) \o WriteNullString(b.music_name)
            \o WriteNullString(b.album_id) \o WriteNullString(b.album_name)
            \o LittleEndian(Len(b.artists), 4) \o WriteVec(WriteArtist, b.artists)
            \o LittleEndian(b.duration, 8)
      [] b.type = "SetMusicAlbumCoverImageURI" -> WriteNullString(b.img_url)
      [] b.type \in {"SetMusicAlbumCoverImageData", "OnAudioData"} ->
            LittleEndian(Len(b.data), 4) \o b.data
      [] b.type \in {"OnPlayProgress", "SeekPlayProgress"} -> LittleEndian(b.progress, 8)
      [] b.type \in {"OnVolumeChanged", "SetVolume"} -> b.volume
      [] b.type = "SetLyric" ->
            LittleEndian(Len(b.data), 4) \o WriteVec(WriteLyricLine, b.data)
      [] b.type = "SetLyricFromTTML" -> WriteNullString(b.data)
      [] OTHER -> <<>>

\* the fields of one variant, after its magic
ReadFields(type, bytes) ==
    CASE type = "SetMusicInfo" ->
            LET music_id == ReadNullString(bytes) IN
            IF ~music_id.ok THEN ReadErr
            ELSE LET music_name == ReadNullString(music_id.rest) IN
            IF ~music_name.ok THEN ReadErr
            ELSE LET album_id == ReadNullString(music_name.rest) IN
            IF ~album_id.ok THEN ReadErr
            ELSE LET album_name == ReadNullString(album_id.rest) IN
            IF ~album_name.ok THEN ReadErr
            ELSE LET artists_size == ReadUnsigned(album_name.rest, 4) IN
            IF ~artists_size.ok THEN ReadErr
            ELSE LET artists == ReadVec(ReadArtist, artists_size.rest, artists_size.value, <<>>) IN
            IF ~artists.ok THEN ReadErr
            ELSE LET duration == ReadUnsigned(artists.rest, 8) IN
            IF ~duration.ok THEN ReadErr
            ELSE ReadOk([ type |-> type, music_id |-> music_id.value,
                          music_name |-> music_name.value, album_id |-> album_id.value,
                          album_name |-> album_name.value, artists |-> artists.value,
                          duration |-> duration.value ], duration.rest)
      [] type \in {"SetMusicAlbumCoverImageURI"} ->
            LET img_url == ReadNullString(bytes) IN
            IF ~img_url.ok THEN ReadErr
            ELSE ReadOk([type |-> type, img_url |-> img_url.value], img_url.rest)
      [] type \in {"SetMusicAlbumCoverImageData", "OnAudioData"} ->
            LET size == ReadUnsigned(bytes, 4) IN
            IF ~size.ok THEN ReadErr
            ELSE LET data == ReadCount(size.rest, size.value) IN
                 IF ~data.ok THEN ReadErr
                 ELSE ReadOk([type |-> type, data |-> data.value], data.rest)
      [] type \in {"OnPlayProgress", "SeekPlayProgress"} ->
            LET progress == ReadUnsigned(bytes, 8) IN
            IF ~progress.ok THEN ReadErr
            ELSE ReadOk([type |-> type, progress |-> progress.value], progress.rest)
      [] type \in {"OnVolumeChanged", "SetVolume"} ->
            LET volume == ReadCount(bytes, 8) IN
            IF ~volume.ok THEN ReadErr
            ELSE ReadOk([type |-> type, volume |-> volume.value], volume.rest)
      [] type = "SetLyric" ->
            LET size == ReadUnsigned(bytes, 4) IN
            IF ~size.ok THEN ReadErr
            ELSE LET data == ReadVec(ReadLyricLine, size.rest, size.value, <<>>) IN
                 IF ~data.ok THEN ReadErr
                 ELSE ReadOk([type |-> type, data |-> data.value], data.rest)
      [] type = "SetLyricFromTTML" ->
            LET data == ReadNullString(bytes) IN
            IF ~data.ok THEN ReadErr
            ELSE ReadOk([type |-> type, data |-> data.value], data.rest)
      [] OTHER -> ReadOk([type |-> type], bytes)

\* Body::read: the variant whose magic the first two bytes are
ReadBody(bytes) ==
    LET magic == ReadUnsigned(bytes, 2) IN
    IF ~magic.ok \/ magic.value >= Len(BodyVariants) THEN ReadErr
    ELSE ReadFields(BodyVariants[magic.value + 1], magic.rest)

\* u32::try_from(len) of every Vec of the message
RECURSIVE LensFit(_)
LensFit(seqs) == seqs = <<>> \/ (Len(seqs[1]) < 2147483647 /\ LensFit(Tail(seqs)))

\* PartialEq of Body
BodyEq(a, b) ==
    IF a.type \in {"OnVolumeChanged", "SetVolume"}
    THEN a.type = b.type /\ F64Eq(a.volume, b.volume)
    ELSE a = b

\* the messages of the calls
WsStrings == { <<>>, <<49>>, <<104, 105>> }
F64Zero == <<0, 0, 0, 0, 0, 0, 0, 0>>
F64Half == <<0, 0, 0, 0, 0, 0, 224, 63>>
F64NaN == <<0, 0, 0, 0, 0, 0, 248, 127>>

WsWord(start_time, end_time, word, roman_word) ==
    [ start_time |-> start_time, end_time |-> end_time, word |-> word,
      roman_word |-> roman_word ]

WsWords == { WsWord(0, 300, <<104, 105>>, <<>>), WsWord(300, 70000, <<49>>, <<120>>) }

SeqsUpTo(S, n) == UNION { [1..k -> S] : k \in 0..n }

WsLines ==
    { [ start_time |-> 0, end_time |-> 70000, words |-> ws, translated_lyric |-> <<49>>,
        roman_lyric |-> <<>>, is_bg |-> bg, is_duet |-> duet ] :
        ws \in SeqsUpTo(WsWords, MaxWsWords), bg \in BOOLEAN, duet \in BOOLEAN }

WsArtists == { <<>>, <<[id |-> <<53>>, name |-> <<54>>]>>,
               <<[id |-> <<53>>, name |-> <<>>], [id |-> <<>>, name |-> <<104, 105>>]>> }

Bodies ==
    { [type |-> t] : t \in {"Ping", "Pong", "OnPaused", "OnResumed", "Pause", "Resume",
                            "ForwardSong", "BackwardSong"} }
    \cup { [ type |-> "SetMusicInfo", music_id |-> <<49>>, music_name |-> s,
             album_id |-> <<>>, album_name |-> <<104, 105>>, artists |-> a,
             duration |-> 7 ] : s \in WsStrings, a \in WsArtists }
    \cup { [type |-> "SetMusicAlbumCoverImageURI", img_url |-> s] : s \in WsStrings }
    \cup { [type |-> t, data |-> d] : t \in {"SetMusicAlbumCoverImageData", "OnAudioData"},
                                     d \in { <<>>, <<0>>, <<1, 0, 255>> } }
    \cup { [type |-> t, progress |-> n] : t \in {"OnPlayProgress", "SeekPlayProgress"},
                                         n \in {0, 7, 300, 70000} }
    \cup { [type |-> t, volume |-> v] : t \in {"OnVolumeChanged", "SetVolume"},
                                       v \in {F64Zero, F64Half, F64NaN} }
    \cup { [type |-> "SetLyric", data |-> d] : d \in SeqsUpTo(WsLines, MaxWsLines) }
    \cup { [type |-> "SetLyricFromTTML", data |-> s] : s \in WsStrings }

InitBody ==
    /\ ws_body \in Bodies /\ ws_bytes = NoResult /\ ws_parsed = NoResult
    /\ TimeIdle /\ SplitIdle /\ StripIdle /\ AgentIdle /\ ParseIdle /\ CacheIdle
    /\ RegexIdle /\ ServerIdle

BodyFrame ==
    UNCHANGED <<timeVars, splitVars, stripVars, agentVars, parseVars, cacheVars, regexVars,
                serverVars>>

\* to_body(&body)
ToBody ==
    /\ ws_bytes = NoResult
    /\ ws_bytes' =
           IF LensFit(IF "data" \in DOMAIN ws_body THEN <<ws_body.data>>
                      ELSE IF "artists" \in DOMAIN ws_body THEN <<ws_body.artists>>
                      ELSE <<>>)
           THEN [ok |-> TRUE, bytes |-> WriteBody(ws_body)]
           ELSE [ok |-> FALSE]
    /\ UNCHANGED <<ws_body, ws_parsed>>
    /\ BodyFrame

\* parse_body(&encoded)
ParseBody ==
    /\ ws_bytes # NoResult /\ ws_bytes.ok /\ ws_parsed = NoResult
    /\ ws_parsed' = LET r == ReadBody(ws_bytes.bytes) IN
                    IF r.ok THEN [ok |-> TRUE, body |-> r.value] ELSE [ok |-> FALSE]
    /\ UNCHANGED <<ws_body, ws_bytes>>
    /\ BodyFrame

NextBody == ToBody \/ ParseBody

SpecBody == InitBody /\ [][NextBody]_vars

-----------------------------------------------------------------------------
\* What the content says, read off the events without the parser.

\* The names of the elements open before event k.
RECURSIVE OpenElements(_, _)
OpenElements(doc, k) ==
    IF k <= 1 THEN <<>>
    ELSE LET before == OpenElements(doc, k - 1)
             e == doc[k - 1]
         IN  IF e.type = "Start" THEN Append(before, e.name)
             ELSE IF e.type = "End" /\ before # <<>> THEN SubSeq(before, 1, Len(before) - 1)
             ELSE before

Inside(doc, k, name) ==
    \E i \in 1..Len(OpenElements(doc, k)) : OpenElements(doc, k)[i] = name

Undecodable(e, a) == a \in DOMAIN e.attrs /\ ~parse_ttml_time_to_ms(e.attrs[a]).ok

\* Event k is a reader error, or the start of a <p> inside <body> or of a
\* <span> inside such a <p> with a begin or end that does not decode.
FatalAt(doc, k) ==
    \/ doc[k].type = "Error"
    \/ /\ doc[k].type = "Start"
       /\ Undecodable(doc[k], "begin") \/ Undecodable(doc[k], "end")
       /\ Inside(doc, k, "body") /\ ~Inside(doc, k, "metadata")
       /\ \/ doc[k].name = "p" /\ ~Inside(doc, k, "p")
          \/ doc[k].name = "span" /\ Inside(doc, k, "p")

HasFatal(doc) == \E k \in 1..Len(doc) : FatalAt(doc, k)

ChainOk == "ok" \in DOMAIN chain_result /\ chain_result.ok
ChainErr == "ok" \in DOMAIN chain_result /\ ~chain_result.ok

\* C2: if the reader reports an error, or a begin/end of a <p> inside <body>
\* or of a <span> inside a <p> does not decode, parse_ttml returns an error
\* and no document, and parse_ttml_for_amll_player returns Err: no pass
\* after the parse runs, and no line is returned.
C2_FatalInputAborts ==
    HasFatal(parse_doc) =>
        /\ parse_result \in {NoResult, ParseError}
        /\ passes \in {<<>>, <<"parse">>}
        /\ parsed_lines = <<>> /\ duet_map = <<>>
        /\ chain_result = NoResult \/ (ChainErr /\ "lines" \notin DOMAIN chain_result)
        /\ stage \in {"parse", "done"}
        /\ stage = "done" => ChainErr

\* The call has returned Err for a time that does not decode, after
\* paragraphs were finalized.
C2_Witness ==
    /\ stage = "done" /\ ChainErr /\ parse_result = ParseError
    /\ Len(parser.lines) >= 2
    /\ \E k \in 1..Len(parse_doc) : FatalAt(parse_doc, k) /\ parse_doc[k].type = "Start"

StageOrder == <<"parse", "strip", "agents", "duet", "split", "smooth", "convert", "map">>
Rank(s) == CHOOSE i \in 1..Len(StageOrder) : StageOrder[i] = s
HasRun(s) == \E i \in 1..Len(passes) : passes[i] = s

\* Whether the options have stage s run (the recognizer also needs lines
\* without singers, so for it this is what its having run implies).
Selected(s) ==
    CASE s = "strip" -> chain_options.metadata_stripper.enabled
      [] s = "agents" -> chain_options.agent_recognizer.enabled /\ HasRun("agents")
      [] s = "split" -> chain_options.apply_auto_splitting
      [] s = "smooth" -> chain_options.smoothing # None
      [] s = "convert" -> chain_options.chinese_conversion_mode
                              \in {"s2t", "t2s", "s2tw", "tw2s", "s2hk", "hk2s"}
      [] OTHER -> TRUE

\* C1: the stages of parse_ttml_for_amll_player run in the order parse,
\* strip, agents, duet, split, smooth, convert, map; each at most once; and
\* when the call returns Ok the stages that ran are exactly the selected
\* ones, in that order.
C1_StagesInOrder ==
    /\ \A i, j \in 1..Len(passes) : i < j => Rank(passes[i]) < Rank(passes[j])
    /\ \A i \in 1..Len(passes) : Selected(passes[i])
    /\ ChainOk => passes = SelectSeq(StageOrder, Selected)
    /\ stage \notin {"parse", "done"} => \A i \in 1..Len(passes) : Rank(passes[i]) < Rank(stage)

\* A call in which all eight stages ran.
C1_Witness == ChainOk /\ passes = StageOrder /\ Len(chain_result.lines) >= 2

\* The text and decoded references between positions i and k.
RECURSIVE Runs(_, _, _)
Runs(doc, i, k) ==
    IF i >= k THEN <<>>
    ELSE (IF doc[i].type = "Text" THEN doc[i].text
          ELSE IF doc[i].type = "GeneralRef" THEN DecodeEntity(doc[i].name)
          ELSE <<>>) \o Runs(doc, i + 1, k)

\* Event k ends a timed span without a role that holds only text and
\* predefined references.
PlainSpanStart(doc, k) ==
    CHOOSE j \in 0..(k - 1) :
        /\ j = 0 \/ doc[j].type = "Start"
        /\ \A i \in (j + 1)..(k - 1) : doc[i].type # "Start"

PlainSpanEndsAt(doc, k) ==
    /\ k >= 1 /\ doc[k].type = "End" /\ doc[k].name = "span"
    /\ LET j == PlainSpanStart(doc, k) IN
       /\ j >= 1 /\ doc[j].name = "span"
       /\ {"begin", "end"} \subseteq DOMAIN doc[j].attrs
       /\ {"ttm_role", "role"} \cap DOMAIN doc[j].attrs = {}
       /\ \A i \in (j + 1)..(k - 1) :
              \/ doc[i].type = "Text"
              \/ doc[i].type = "GeneralRef" /\ DecodeEntity(doc[i].name) # <<>>

SpanContent(doc, k) == Runs(doc, PlainSpanStart(doc, k) + 1, k)

\* C9: the text of a span is the concatenation, in order, of its text runs
\* and its decoded predefined references, whitespace between two references
\* included: when a timed span of a word-timed paragraph ends, the syllable
\* made from it has that text (trimmed, whitespace runs single).
C9_SpanTextIsConcatenation ==
    ( /\ stage = "parse" /\ parse_result = NoResult
      /\ PlainSpanEndsAt(parse_doc, parse_pos)
      /\ parser.in_p /\ parser.span_stack = <<>> /\ ~parser.is_line_timing_mode
      /\ trim(SpanContent(parse_doc, parse_pos)) # <<>> )
    => LET syls == PData(parser).syllables_accumulator IN
       /\ syls # <<>>
       /\ syls[Len(syls)].text = normalize_text_whitespace(SpanContent(parse_doc, parse_pos))

\* The <text for=...> entries of the translations block.
TableEntries(doc) ==
    { k \in 1..Len(doc) :
        /\ doc[k].type = "Start" /\ doc[k].name = "text" /\ "for" \in DOMAIN doc[k].attrs
        /\ Inside(doc, k, "metadata") /\ Inside(doc, k, "translation") }

\* The character data of the element that starts at event k.
RECURSIVE CharacterDataFrom(_, _, _)
CharacterDataFrom(doc, i, depth) ==
    IF i > Len(doc) \/ (doc[i].type = "End" /\ depth = 0) THEN <<>>
    ELSE Runs(doc, i, i + 1)
         \o CharacterDataFrom(doc, i + 1,
                depth + (IF doc[i].type = "Start" THEN 1
                         ELSE IF doc[i].type = "End" THEN -1 ELSE 0))

CharacterData(doc, k) == CharacterDataFrom(doc, k + 1, 0)

EntriesFor(doc, key) ==
    { k \in TableEntries(doc) : doc[k].attrs.for = key /\ CharacterData(doc, k) # <<>> }

ParseOk == parse_result # NoResult /\ parse_result.ok

\* C10: a parsed line whose itunes:key has a <text for=key> entry in the
\* translations block has the entry's character data (markup of nested
\* spans removed, whitespace between them kept) as a translation; a line
\* whose key has no entry has no translation taken from the block.
C10_TableTranslation ==
    ParseOk =>
        \A i \in 1..Len(parse_result.data.lines) :
            LET line == parse_result.data.lines[i]
                translations == { line.translations[t].text : t \in 1..Len(line.translations) }
            IN  IF line.itunes_key # None /\ EntriesFor(parse_doc, line.itunes_key[1]) # {}
                THEN \E k \in EntriesFor(parse_doc, line.itunes_key[1]) :
                         CharacterData(parse_doc, k) \in translations
                ELSE \A k \in TableEntries(parse_doc) :
                         /\ CharacterData(parse_doc, k) \notin translations
                         /\ ReadText(parse_doc, k + 1, 0, <<>>).text \notin translations

\* The step of handle_p_event on the </p> of an open paragraph.
ClosingParagraph ==
    /\ HandlePEvent
    /\ parse_doc[parse_pos + 1].type = "End" /\ parse_doc[parse_pos + 1].name = "p"
    /\ parser.current_p_element_data # None

\* C11: at paragraph close the translation the metadata table holds for the
\* line's key is appended only if the line has no inline translation in the
\* table entry's language; when it has one, the line's translations are the
\* inline ones, unchanged.
C11_InlineTranslationPrecedes ==
    [][ ( /\ ClosingParagraph
          /\ PData(parser).itunes_key # None
          /\ MapHas(parser.translation_map, PData(parser).itunes_key[1]) )
        => LET inline == PData(parser).translations_accumulator
               entry == MapGet(parser.translation_map, PData(parser).itunes_key[1])
               closed == parser'.lines
           IN  /\ Len(closed) = Len(parser.lines) + 1
               /\ closed[Len(closed)].translations =
                      IF \E t \in 1..Len(inline) : inline[t].lang = entry[2]
                      THEN inline
                      ELSE Append(inline, [text |-> entry[1], lang |-> entry[2]]) ]_vars

BackgroundOpeners == {"(", "FLP"}
BackgroundClosers == {")", "FRP"}

\* C12: after parsing, in every background section the first syllable's
\* text does not begin with an opening parenthesis and the last syllable's
\* text does not end with a closing one (ASCII or full-width), whether the
\* syllable came from a nested timed span or from text directly in the
\* background span.
C12_BackgroundBracketsTrimmed ==
    ParseOk =>
        \A i \in 1..Len(parse_result.data.lines) :
            LET bg == parse_result.data.lines[i].background_section IN
            (bg # None /\ bg[1].syllables # <<>>) =>
                LET first == bg[1].syllables[1].text
                    last == bg[1].syllables[Len(bg[1].syllables)].text
                IN  /\ first = <<>> \/ first[1] \notin BackgroundOpeners
                    /\ last = <<>> \/ last[Len(last)] \notin BackgroundClosers

\* The stripper options without the patterns that do not compile.
WithoutInvalidPatterns(o) ==
    IF o.regex_patterns = None THEN o
    ELSE [o EXCEPT !.regex_patterns = Some(SelectSeq(@[1], LAMBDA pattern : pattern.valid))]

InvalidAgentPattern ==
    /\ chain_options.agent_recognizer.custom_pattern # None
    /\ ~chain_options.agent_recognizer.custom_pattern[1].valid

\* C13: no pass aborts the call: with an invalid custom agent pattern
\* recognize_agents returns and leaves the lines as they were, with an
\* invalid stripper pattern the stripper returns and works as without that
\* pattern, and the conversion returns whether or not its converter could
\* be constructed.
C13_PassesNeverAbort ==
    [][ /\ InvalidAgentPattern => "panic" \notin DOMAIN chain_result'
        /\ (StripStage /\ chain_options.metadata_stripper.enabled) =>
               /\ stage' = "agents"
               /\ parsed_lines' = strip_descriptive_metadata_lines(parsed_lines,
                      WithoutInvalidPatterns(chain_options.metadata_stripper))
        /\ (AgentStage /\ InvalidAgentPattern /\ "agents" \notin {passes[i] : i \in 1..Len(passes)}
              /\ passes' # passes) =>
               /\ stage' = "duet"
               /\ parsed_lines' = standardize_agent_ids(parsed_lines)
        /\ ConvertStage => stage' = "map" /\ chain_result' = NoResult ]_vars

\* C14: under any interleaving of concurrent convert calls, at most one
\* converter is constructed and stored for a configuration name, a call that
\* converts with a converter converts with the stored one, and a stored
\* entry is never replaced or removed.
C14_ConverterBuiltOnce ==
    [][ /\ \A n \in ConfigNames : conv_built'[n] <= 1
        /\ \A n \in ConfigNames : conv_cache[n] # None => conv_cache'[n] = conv_cache[n]
        /\ \A t \in Threads :
              (conv_pc'[t] = "convert" /\ conv_used'[t] # None) =>
                  conv_used'[t] = conv_cache'[conv_name'[t]] ]_vars

\* Both threads missed the first lookup of the same name, one constructed the
\* converter, and both calls returned having used it.
C14_Witness ==
    \E n \in ConfigNames :
        /\ conv_built[n] = 1
        /\ \A t \in Threads :
              /\ conv_pc[t] = "idle" /\ conv_calls[t] = 1 /\ conv_name[t] = n
              /\ conv_missed[t] /\ conv_used[t] = conv_cache[n] /\ conv_used[t] # None

\* The singer names of the lines standardize_agent_ids is called on.
NamedLines == recognize_agents(parsed_lines, chain_options.agent_recognizer).lines

IsChorusName(name) ==
    \E k \in 1..Len(CHORUS_KEYWORDS) : eq_ignore_ascii_case(CHORUS_KEYWORDS[k], name)

IsSinger(ls, i) == ls[i].agent # None /\ ~IsChorusName(ls[i].agent[1])

\* the line on which the name of line i first appears
FirstAppearance(ls, i) ==
    CHOOSE j \in 1..i : /\ ls[j].agent = ls[i].agent
                        /\ \A h \in 1..(j - 1) : ls[h].agent # ls[i].agent

\* how many distinct singer names appear up to the first appearance of line i's
SingerNumber(ls, i) ==
    Cardinality({ ls[j].agent[1] : j \in { h \in 1..FirstAppearance(ls, i) : IsSinger(ls, h) } })

Standardizing ==
    /\ AgentStage
    /\ ~has_agents(parsed_lines) /\ chain_options.agent_recognizer.enabled
    /\ "panic" \notin DOMAIN chain_result'

\* C15: after standardize_agent_ids, a line whose singer name is a chorus
\* keyword has the id v1000, and a line with any other name has the id "v"
\* followed by the number of distinct non-chorus names up to the first
\* appearance of its name: same name, same id; v1, v2, ... without gaps in
\* order of first appearance; chorus lines consume no number.
C15_AgentIdsStandardized ==
    [][ Standardizing =>
          /\ Len(parsed_lines') = Len(NamedLines)
          /\ \A i \in 1..Len(NamedLines) :
                /\ NamedLines[i].agent = None => parsed_lines'[i].agent = None
                /\ (NamedLines[i].agent # None /\ IsChorusName(NamedLines[i].agent[1])) =>
                       parsed_lines'[i].agent = Some(ChorusId)
                /\ IsSinger(NamedLines, i) =>
                       parsed_lines'[i].agent =
                           Some(<<"v">> \o Decimal(SingerNumber(NamedLines, i))) ]_vars

\* The ids were standardized on lines where a chorus line stands between the
\* first and the second singer.
C15_Witness ==
    /\ stage = "duet" /\ passes[Len(passes)] = "agents"
    /\ \E i, j, k \in 1..Len(parsed_lines) :
          /\ i < j /\ j < k
          /\ parsed_lines[i].agent = Some(<<"v", "1">>)
          /\ parsed_lines[j].agent = Some(ChorusId)
          /\ parsed_lines[k].agent = Some(<<"v", "2">>)

HasSingerId(ls, i) == ls[i].agent # None /\ ls[i].agent # Some(ChorusId)

\* how many distinct non-chorus ids appear up to the first appearance of line i's
SingerIdNumber(ls, i) ==
    Cardinality({ ls[j].agent[1] : j \in { h \in 1..FirstAppearance(ls, i) : HasSingerId(ls, h) } })

\* how many output lines the mapping makes of one parsed line
OutputCount(rust_line) ==
    (IF rust_line.main_syllables # <<>> THEN 1 ELSE 0)
    + (IF rust_line.background_section # None
          /\ rust_line.background_section[1].syllables # <<>> THEN 1 ELSE 0)

\* how many output lines come from the parsed lines before line i
RECURSIVE OutputOffset(_, _)
OutputOffset(ls, i) ==
    IF i <= 1 THEN 0 ELSE OutputOffset(ls, i - 1) + OutputCount(ls[i - 1])

\* C16: assign_duet_view gives the k-th distinct non-chorus singer id, in
\* order of first appearance, the side false when k is odd and true when k
\* is even; v1000 is never a key of the map; and the output lines of a
\* parsed line with the chorus id or with no singer have is_duet = false.
C16_DuetSidesAlternate ==
    [][ /\ DuetStage =>
              /\ \A k \in 1..Len(duet_map') :
                    /\ duet_map'[k][1] # ChorusId
                    /\ \E i \in 1..Len(parsed_lines) : parsed_lines[i].agent = Some(duet_map'[k][1])
              /\ \A i \in 1..Len(parsed_lines) :
                    HasSingerId(parsed_lines, i) =>
                        /\ MapHas(duet_map', parsed_lines[i].agent[1])
                        /\ MapGet(duet_map', parsed_lines[i].agent[1])
                               = (SingerIdNumber(parsed_lines, i) % 2 = 0)
        /\ MapStage =>
              \A i \in 1..Len(parsed_lines) :
                  ~HasSingerId(parsed_lines, i) =>
                      \A n \in 1..OutputCount(parsed_lines[i]) :
                          ~chain_result'.lines[OutputOffset(parsed_lines, i) + n].is_duet ]_vars

\* The lines of two singers and a chorus line were mapped: the first singer
\* has the side false, the second the side true, the chorus id no side.
C16_Witness ==
    /\ stage = "done" /\ ChainOk
    /\ duet_map = << <<(<<"v", "1">>), FALSE>>, <<(<<"v", "2">>), TRUE>> >>
    /\ \E i \in 1..Len(parsed_lines) :
          /\ parsed_lines[i].agent = Some(ChorusId)
          /\ OutputCount(parsed_lines[i]) = 1
          /\ ~chain_result.lines[OutputOffset(parsed_lines, i) + 1].is_duet
    /\ \E n \in 1..Len(chain_result.lines) : chain_result.lines[n].is_duet

\* the duet side assign_duet_view gave the singer of a parsed line
SideOf(rust_line) ==
    IF rust_line.agent # None /\ MapHas(duet_map, rust_line.agent[1])
    THEN MapGet(duet_map, rust_line.agent[1]) ELSE FALSE

HasBackgroundOutput(rust_line) ==
    /\ rust_line.background_section # None
    /\ rust_line.background_section[1].syllables # <<>>

\* C17: every output line with is_bg = true has is_duet equal to the duet
\* side of the singer of the parsed line that owns the background section,
\* also when that parsed line has no main syllables.
C17_BackgroundCarriesParentSide ==
    [][ MapStage =>
          \A i \in 1..Len(parsed_lines) :
              HasBackgroundOutput(parsed_lines[i]) =>
                  LET out == chain_result'.lines[OutputOffset(parsed_lines, i)
                                                 + OutputCount(parsed_lines[i])]
                  IN  out.is_bg /\ out.is_duet = SideOf(parsed_lines[i]) ]_vars

\* the reader yields the start of the root element
RootStart ==
    /\ HandleGlobalEvent
    /\ parse_doc[parse_pos + 1].type = "Start" /\ parse_doc[parse_pos + 1].name = "tt"

DeclaresLineTiming(e) == "timing" \in DOMAIN e.attrs /\ e.attrs.timing = "line"

\* C18: if the root element does not declare itunes:timing="line", the
\* document is word-timed exactly when the text contains a span with a begin
\* attribute; when it contains none, the document is line-timed and a
\* warning is recorded.
C18_TimingModeFromPrescan ==
    [][ (RootStart /\ ~DeclaresLineTiming(parse_doc[parse_pos + 1])) =>
          /\ parser'.is_line_timing_mode = ~has_timed_span_tags(parse_doc)
          /\ ~has_timed_span_tags(parse_doc) =>
                \E w \in 1..Len(parser'.warnings) : parser'.warnings[w] = "auto_line_mode" ]_vars

LastOf(seq) == seq[Len(seq)]

\* C19: in every line of a document returned by parse_ttml, the last main
\* syllable has ends_with_space = false, and so has the last syllable of a
\* background section that has syllables.
C19_LastSyllableHasNoSpace ==
    ParseOk =>
        \A i \in 1..Len(parse_result.data.lines) :
            LET line == parse_result.data.lines[i] IN
            /\ line.main_syllables # <<>> => ~LastOf(line.main_syllables).ends_with_space
            /\ (line.background_section # None /\ line.background_section[1].syllables # <<>>)
                   => ~LastOf(line.background_section[1].syllables).ends_with_space

\* A paragraph whose last span's text ends with a space was closed, in a
\* line with main and background syllables.
C19_Witness ==
    /\ ParseOk
    /\ \E k \in 1..(Len(parse_doc) - 2), i \in 1..Len(parse_result.data.lines) :
          LET line == parse_result.data.lines[i] IN
          /\ parse_doc[k].type = "Text" /\ trim(parse_doc[k].text) # <<>>
          /\ ends_with_whitespace(parse_doc[k].text)
          /\ parse_doc[k + 1].type = "End" /\ parse_doc[k + 1].name = "span"
          /\ parse_doc[k + 2].type = "End" /\ parse_doc[k + 2].name = "p"
          /\ line.main_syllables # <<>>
          /\ LastOf(line.main_syllables).text = trim(parse_doc[k].text)
          /\ ~LastOf(line.main_syllables).ends_with_space
          /\ line.background_section # None
          /\ line.background_section[1].syllables # <<>>
          /\ ~LastOf(line.background_section[1].syllables).ends_with_space

\* the closing of a paragraph appends a line
LineAppended == ClosingParagraph /\ Len(parser'.lines) = Len(parser.lines) + 1

HasTextAndDuration(line) ==
    line.line_text # None /\ line.line_text[1] # <<>> /\ line.end_ms > line.start_ms

\* C20: a line of parse_ttml with non-empty flat text and end_ms > start_ms
\* has at least one main syllable; when no syllable was collected for it, it
\* has exactly one, with the flat text and the range [start_ms, end_ms].
C20_TextHasSyllable ==
    [][ (LineAppended /\ HasTextAndDuration(LastOf(parser'.lines))) =>
          LET line == LastOf(parser'.lines) IN
          /\ line.main_syllables # <<>>
          /\ PData(parser).syllables_accumulator = <<>> =>
                /\ Len(line.main_syllables) = 1
                /\ line.main_syllables[1].text = line.line_text[1]
                /\ line.main_syllables[1].start_ms = line.start_ms
                /\ line.main_syllables[1].end_ms = line.end_ms ]_vars

\* A line-timed document was returned with a line of flat text that has the
\* one syllable spanning it.
C20_Witness ==
    /\ ParseOk /\ parser.is_line_timing_mode
    /\ \E i \in 1..Len(parse_result.data.lines) :
          LET line == parse_result.data.lines[i] IN
          /\ HasTextAndDuration(line)
          /\ Len(line.main_syllables) = 1
          /\ line.main_syllables[1].text = line.line_text[1]
          /\ line.main_syllables[1].start_ms = line.start_ms
          /\ line.main_syllables[1].end_ms = line.end_ms

\* What a paragraph has collected when it is closed.
HasNoText(m, p) ==
    IF m.is_line_timing_mode
    THEN normalize_text_whitespace(
             IF trim(p.line_text_accumulator) = <<>> /\ p.syllables_accumulator # <<>>
             THEN AssembledText(p.syllables_accumulator)
             ELSE p.line_text_accumulator) = <<>>
    ELSE /\ p.syllables_accumulator = <<>>
         /\ normalize_text_whitespace(p.line_text_accumulator) = <<>>

HasNoTranslation(m, p) ==
    /\ p.translations_accumulator = <<>>
    /\ ~(p.itunes_key # None /\ MapHas(m.translation_map, p.itunes_key[1]))

HasNoBackground(p) ==
    \/ p.background_section_accumulator = None
    \/ /\ p.background_section_accumulator[1].syllables = <<>>
       /\ p.background_section_accumulator[1].translations = <<>>
       /\ p.background_section_accumulator[1].romanizations = <<>>

IsPrefixOf(a, b) == Len(a) <= Len(b) /\ \A i \in 1..Len(a) : b[i] = a[i]

\* C21: each closed paragraph appends at most one line, after the lines of
\* the paragraphs before it, and appends none exactly when it has no flat
\* text, no main syllables, no translations, no romanizations, no background
\* section and end_ms <= start_ms.
C21_EmptyParagraphDropped ==
    [][ ClosingParagraph =>
          LET p == PData(parser) IN
          /\ IsPrefixOf(parser.lines, parser'.lines)
          /\ Len(parser'.lines) <= Len(parser.lines) + 1
          /\ (Len(parser'.lines) = Len(parser.lines))
                 <=> ( /\ HasNoText(parser, p) /\ HasNoTranslation(parser, p)
                       /\ p.romanizations_accumulator = <<>> /\ HasNoBackground(p)
                       /\ p.end_ms <= p.start_ms ) ]_vars

\* A paragraph with no content and no duration was appended for the
\* translation the table holds for its key.
C21_Witness ==
    /\ ParseOk /\ Len(parse_result.data.lines) = 1
    /\ LET line == parse_result.data.lines[1] IN
       /\ line.main_syllables = <<>> /\ line.end_ms <= line.start_ms
       /\ line.background_section = None /\ line.romanizations = <<>>
       /\ line.line_text = None
       /\ line.translations # <<>>

\* C22: for every Body b that to_body encodes successfully,
\* parse_body(to_body(b)) succeeds and equals b.
C22_BodyRoundTrip ==
    ws_parsed # NoResult => (ws_parsed.ok /\ BodyEq(ws_parsed.body, ws_body))

\* the reader has yielded the start of a paragraph
ParagraphOpened ==
    \E k \in 1..parse_pos : parse_doc[k].type = "Start" /\ parse_doc[k].name = "p"

\* C23: is_line_timing_mode does not change between the opening of the first
\* paragraph and the end of input, whatever elements follow.
C23_TimingModeDecidedOnce ==
    [][ ParagraphOpened => parser'.is_line_timing_mode = parser.is_line_timing_mode ]_vars

\* how many of the three handlers take the step
HandlersTaking ==
    (IF HandlePEvent THEN 1 ELSE 0) + (IF HandleMetadataEvent THEN 1 ELSE 0)
    + (IF HandleGlobalEvent THEN 1 ELSE 0)

\* C24: at most one of the paragraph context and the metadata context is
\* active in every parser state, and every event the reader yields is
\* handled by exactly one handler, the one of the active context.
C24_ContextsExclusive ==
    [][ /\ ~(parser.in_p /\ parser.in_metadata_section)
        /\ ~(parser'.in_p /\ parser'.in_metadata_section)
        /\ (Reading /\ parse_pos' > parse_pos) =>
              /\ HandlersTaking = 1
              /\ parser.in_p => HandlePEvent
              /\ parser.in_metadata_section => HandleMetadataEvent
              /\ (~parser.in_p /\ ~parser.in_metadata_section) => HandleGlobalEvent ]_vars

\* The reader has yielded a <metadata> start inside a paragraph, and the
\* paragraph context alone is active.
C24_Witness ==
    /\ stage = "parse" /\ parse_pos > 0
    /\ parse_doc[parse_pos].type = "Start" /\ parse_doc[parse_pos].name = "metadata"
    /\ parser.in_p /\ ~parser.in_metadata_section

\* the reader yields a whitespace-only text inside a paragraph
WhitespaceText ==
    /\ HandlePEvent
    /\ parse_doc[parse_pos + 1].type = "Text"
    /\ parse_doc[parse_pos + 1].text # <<>> /\ AllWhitespace(parse_doc[parse_pos + 1].text)

\* C25: in word-timing mode a whitespace-only text sets ends_with_space on
\* a syllable only when it is the first event after the close of the span
\* that emitted the syllable.
C25_SpaceFlagOnlyRightAfterClose ==
    [][ ( /\ WhitespaceText /\ ~parser.is_line_timing_mode
          /\ parser'.current_p_element_data # parser.current_p_element_data )
        => (parse_doc[parse_pos].type = "End" /\ parse_doc[parse_pos].name = "span") ]_vars

\* C26: in word-timing mode, when a generic span with begin and end whose
\* content is only whitespace closes, the last syllable of the line is a
\* single space with the span's time range.
C26_WhitespaceSpanIsSpaceSyllable ==
    ( /\ stage = "parse" /\ parse_result = NoResult
      /\ PlainSpanEndsAt(parse_doc, parse_pos)
      /\ parser.in_p /\ parser.span_stack = <<>> /\ ~parser.is_line_timing_mode
      /\ SpanContent(parse_doc, parse_pos) # <<>>
      /\ AllWhitespace(SpanContent(parse_doc, parse_pos)) )
    => LET syls == PData(parser).syllables_accumulator
           e == parse_doc[PlainSpanStart(parse_doc, parse_pos)]
       IN  /\ syls # <<>>
           /\ syls[Len(syls)].text = <<" ">>
           /\ syls[Len(syls)].start_ms = TimeOr(TimeAttr(e, "begin"), 0)
           /\ syls[Len(syls)].end_ms = TimeOr(TimeAttr(e, "end"), 0)

\* the syllables of the open paragraph, main line and background section
AllSyllables(m) ==
    IF m.current_p_element_data = None THEN <<>>
    ELSE PData(m).syllables_accumulator
         \o (IF PData(m).background_section_accumulator = None THEN <<>>
             ELSE PData(m).background_section_accumulator[1].syllables)

\* </span> closes a generic span holding non-blank text, in word timing
GenericSpanCloses ==
    /\ HandlePEvent
    /\ parse_doc[parse_pos + 1].type = "End" /\ parse_doc[parse_pos + 1].name = "span"
    /\ parser.span_stack # <<>>
    /\ parser.span_stack[Len(parser.span_stack)].role = "Generic"
    /\ trim(parser.text_buffer) # <<>>
    /\ ~parser.is_line_timing_mode

ClosingSpan == parser.span_stack[Len(parser.span_stack)]

FullyTimed(ctx) == ctx.start_ms # None /\ ctx.end_ms # None

\* the sequence t is s with exactly one more element, syl
OneMore(s, t, syl) ==
    /\ Len(t) = Len(s) + 1
    /\ \E k \in 1..Len(t) :
          /\ t[k] = syl
          /\ \A i \in 1..Len(s) : s[i] = t[IF i < k THEN i ELSE i + 1]

\* C27: in word-timing mode, closing a generic span with non-blank text emits
\* exactly one syllable with the span's begin and end when both are present
\* and begin <= end; it emits no syllable and appends exactly one warning when
\* begin or end is missing; in neither case does the line's flat text change.
C27_GenericSpanCloseWordMode ==
    [][ GenericSpanCloses =>
        /\ PData(parser').line_text_accumulator = PData(parser).line_text_accumulator
        /\ ( FullyTimed(ClosingSpan) /\ ClosingSpan.start_ms[1] <= ClosingSpan.end_ms[1] )
           => \E k \in 1..Len(AllSyllables(parser')) :
                 /\ OneMore(AllSyllables(parser), AllSyllables(parser'),
                            AllSyllables(parser')[k])
                 /\ AllSyllables(parser')[k].start_ms = ClosingSpan.start_ms[1]
                 /\ AllSyllables(parser')[k].end_ms = ClosingSpan.end_ms[1]
        /\ ~FullyTimed(ClosingSpan)
           => /\ AllSyllables(parser') = AllSyllables(parser)
              /\ Len(parser'.warnings) = Len(parser.warnings) + 1 ]_vars

C27_Witness ==
    /\ stage = "parse" /\ parse_result = NoResult /\ ~parser.is_line_timing_mode
    /\ parse_pos >= 1 /\ parse_doc[parse_pos].type = "End" /\ parse_doc[parse_pos].name = "span"
    /\ parser.in_p /\ parser.warnings # <<>>
    /\ parser.warnings[Len(parser.warnings)] = "span_without_time"
    /\ PData(parser).syllables_accumulator # <<>>

\* the start of the paragraph that is open before event k
RECURSIVE ParagraphStart(_, _)
ParagraphStart(doc, k) ==
    IF k <= 1 THEN 0
    ELSE IF doc[k - 1].type = "Start" /\ doc[k - 1].name = "p" THEN k - 1
    ELSE ParagraphStart(doc, k - 1)

\* a generic span with begin and end starts between positions i and k
HasTimedGenericSpan(doc, i, k) ==
    \E j \in (i + 1)..(k - 1) :
        /\ doc[j].type = "Start" /\ doc[j].name = "span"
        /\ SpanRoleOf(doc[j]) = "Generic"
        /\ {"begin", "end"} \subseteq DOMAIN doc[j].attrs

LineModeSpanCloses ==
    /\ HandlePEvent
    /\ parse_doc[parse_pos + 1].type = "End" /\ parse_doc[parse_pos + 1].name = "span"
    /\ parser.span_stack # <<>>
    /\ parser.span_stack[Len(parser.span_stack)].role = "Generic"
    /\ parser.is_line_timing_mode

LineModeParagraphCloses ==
    /\ HandlePEvent
    /\ parse_doc[parse_pos + 1].type = "End" /\ parse_doc[parse_pos + 1].name = "p"
    /\ parser.is_line_timing_mode /\ ~parser'.err

\* C28: in line-timing mode, closing a generic span appends its buffered text
\* to the line's flat text and emits no syllable, and when a span of the
\* paragraph carried begin and end, a warning that they were ignored has been
\* recorded by the time the paragraph is closed.
C28_LineModeSpanIgnoredWithWarning ==
    [][ /\ LineModeSpanCloses =>
            /\ PData(parser').line_text_accumulator
                   = PData(parser).line_text_accumulator \o parser.text_buffer
            /\ AllSyllables(parser') = AllSyllables(parser)
        /\ ( /\ LineModeParagraphCloses
             /\ HasTimedGenericSpan(parse_doc, ParagraphStart(parse_doc, parse_pos + 1),
                                    parse_pos + 1) )
           => \E k \in 1..Len(parser'.warnings) :
                  parser'.warnings[k] = "syllable_times_ignored" ]_vars

\* </ttm:name> closes a non-blank display name of a singer that has an id
AgentNameCloses ==
    /\ HandleMetadataEvent
    /\ parse_doc[parse_pos + 1].type = "End" /\ parse_doc[parse_pos + 1].name = "name"
    /\ parse_doc[parse_pos + 1].prefix = "ttm"
    /\ parser.in_agent_name_tag /\ parser.current_agent_id_for_name # None
    /\ trim(parser.current_agent_name_text) # <<>>

AgentNames(m, id) ==
    SelectSeq(m.raw_metadata, LAMBDA entry : entry[1] = "agent" /\ entry[2] = id)

\* C29: when two singer declarations carry the same xml:id, a warning is
\* recorded and the metadata keeps only the display name of the last
\* declaration for that id.
C29_DuplicateAgentLastNameWins ==
    [][ AgentNameCloses =>
        LET id == parser.current_agent_id_for_name[1] IN
        /\ AgentNames(parser', id)
               = << <<"agent", id, trim(parser.current_agent_name_text)>> >>
        /\ AgentNames(parser, id) # <<>>
           => \E k \in 1..Len(parser'.warnings) :
                  parser'.warnings[k] = "duplicate_xml_id" ]_vars

\* the start tag that the end tag at position k closes
RECURSIVE MatchingStart(_, _, _)
MatchingStart(doc, k, depth) ==
    IF k <= 1 THEN 0
    ELSE IF doc[k - 1].type = "End" THEN MatchingStart(doc, k - 1, depth + 1)
    ELSE IF doc[k - 1].type = "Start"
    THEN IF depth = 0 THEN k - 1 ELSE MatchingStart(doc, k - 1, depth - 1)
    ELSE MatchingStart(doc, k - 1, depth)

\* the text that stands between positions i and k outside any nested element
RECURSIVE DirectText(_, _, _, _)
DirectText(doc, i, k, depth) ==
    IF i >= k THEN <<>>
    ELSE IF doc[i].type = "Start" THEN DirectText(doc, i + 1, k, depth + 1)
    ELSE IF doc[i].type = "End" THEN DirectText(doc, i + 1, k, depth - 1)
    ELSE (IF depth = 0 /\ doc[i].type = "Text" THEN doc[i].text ELSE <<>>)
         \o DirectText(doc, i + 1, k, depth)

BackgroundSyllables(m) ==
    IF m.current_p_element_data = None \/ PData(m).background_section_accumulator = None
    THEN <<>>
    ELSE PData(m).background_section_accumulator[1].syllables

IsBackgroundTextWarning(w) == w \in {"background_text_without_time", "background_text_ignored"}

\* </span> closes a background span that directly holds non-blank text
BackgroundSpanWithTextCloses ==
    /\ HandlePEvent
    /\ parse_doc[parse_pos + 1].type = "End" /\ parse_doc[parse_pos + 1].name = "span"
    /\ parser.span_stack # <<>>
    /\ parser.span_stack[Len(parser.span_stack)].role = "Background"
    /\ trim(DirectText(parse_doc, MatchingStart(parse_doc, parse_pos + 1, 0) + 1,
                       parse_pos + 1, 0)) # <<>>

\* C30: non-blank text directly inside a background span becomes a single
\* synthetic background syllable only if the container has begin and end and
\* no syllable yet; in every other case, wherever the text stands relative to
\* nested spans, no syllable is made of it and a warning about it is in the
\* warnings list.
C30_BackgroundDirectText ==
    [][ BackgroundSpanWithTextCloses =>
        \/ /\ FullyTimed(ClosingSpan) /\ BackgroundSyllables(parser) = <<>>
           /\ Len(BackgroundSyllables(parser')) = 1
           /\ BackgroundSyllables(parser')[1].start_ms = ClosingSpan.start_ms[1]
        \/ /\ ~(FullyTimed(ClosingSpan) /\ BackgroundSyllables(parser) = <<>>)
           /\ BackgroundSyllables(parser') = BackgroundSyllables(parser)
           /\ \E k \in 1..Len(parser'.warnings) :
                  IsBackgroundTextWarning(parser'.warnings[k]) ]_vars

\* The options run the keyword pass and no regex pass.
KeywordPassOnly(options) ==
    /\ options.enabled
    /\ options.keywords = None \/ options.keywords[1] # <<>>
    /\ \/ ~options.enable_regex_stripping
       \/ options.regex_patterns # None /\ options.regex_patterns[1] = <<>>

KeywordLine(line, options) ==
    LET keywords == IF options.keywords = None THEN default_keywords ELSE options.keywords[1]
        prepared == IF options.keyword_case_sensitive THEN keywords
                    ELSE [k \in 1..Len(keywords) |-> to_lowercase(keywords[k])]
    IN  line_matches_keyword_rule(get_plain_text_from_lyric_line(line), prepared,
                                  options.keyword_case_sensitive)

\* h: one past the largest 0-based index below limit of a matching line
RECURSIVE HeaderBoundary(_, _, _)
HeaderBoundary(lines, options, limit) ==
    IF limit = 0 THEN 0
    ELSE IF KeywordLine(lines[limit], options) THEN limit
    ELSE HeaderBoundary(lines, options, limit - 1)

\* f: the 0-based start of the run of matching lines that ends at the last
\* line, not searched below floor
RECURSIVE FooterBoundary(_, _, _, _)
FooterBoundary(lines, options, f, floor) ==
    IF f > floor /\ KeywordLine(lines[f], options)
    THEN FooterBoundary(lines, options, f - 1, floor)
    ELSE f

KeptByKeywords(lines, options) ==
    LET n == Len(lines)
        h == HeaderBoundary(lines, options, Min(HeaderScanLimit, n))
        f == FooterBoundary(lines, options, n, Max(Max(n - EndLookbackCount, 0), h))
    IN  IF h >= f THEN <<>> ELSE SubSeq(lines, h + 1, f)

\* C31: with a non-empty keyword list, the keyword pass over n lines keeps
\* exactly lines[h..f), in order, where h is one past the largest index below
\* min(20, n) of a matching line and f is the start of the run of matching
\* lines ending at the last line, searched at indices >= max(n-10, h); when
\* h >= f the list is emptied.
C31_KeywordPassKeepsHeaderToFooter ==
    KeywordPassOnly(strip_opts) =>
        \A k \in 1..(Len(strip_hist) - 1) :
            strip_hist[k] # <<>> => strip_hist[k + 1] = KeptByKeywords(strip_hist[k], strip_opts)

C31_Witness ==
    /\ KeywordPassOnly(strip_opts) /\ Len(strip_hist) >= 2
    /\ Len(strip_hist[1]) > HeaderScanLimit
    /\ strip_hist[2] # <<>>
    /\ strip_hist[2][1] # strip_hist[1][1]
    /\ strip_hist[2][Len(strip_hist[2])] # strip_hist[1][Len(strip_hist[1])]

(***************************************************************************)
(* 9. metadata_stripper: REGEX_CACHE under concurrent get_cached_regex     *)
(***************************************************************************)
MaxRegexCalls == 2

\* RegexBuilder::new(pattern).case_insensitive(!case_sensitive).build(): the
\* pattern "(" does not compile.
BuildRegex(key) ==
    IF key[1] = "(" THEN None
    ELSE Some([pattern |-> key[1], case_insensitive |-> ~key[2]])

InitRegex ==
    /\ TimeIdle /\ SplitIdle /\ StripIdle /\ AgentIdle /\ ParseIdle
    /\ CacheIdle /\ WsIdle /\ RegexIdle /\ ServerIdle

RegexFrame ==
    UNCHANGED <<timeVars, splitVars, stripVars, agentVars, parseVars, cacheVars, wsVars,
                serverVars>>

\* a thread enters get_cached_regex(pattern, case_sensitive)
RegexCall ==
    \E t \in Threads, key \in RegexKeys :
        /\ re_pc[t] = "idle" /\ re_calls[t] < MaxRegexCalls
        /\ re_pc' = [re_pc EXCEPT ![t] = "lock"]
        /\ re_key' = [re_key EXCEPT ![t] = key]
        /\ UNCHANGED <<re_cache, re_lock, re_ret, re_calls, re_compiled>>
        /\ RegexFrame

\* cache_mutex.lock().unwrap(): waits until the mutex is free
RegexLock ==
    \E t \in Threads :
        /\ re_pc[t] = "lock" /\ re_lock = 0
        /\ re_lock' = t
        /\ re_pc' = [re_pc EXCEPT ![t] = "get"]
        /\ UNCHANGED <<re_cache, re_key, re_ret, re_calls, re_compiled>>
        /\ RegexFrame

\* cache.get(&key): a hit returns the clone and drops the guard
RegexGet ==
    \E t \in Threads :
        /\ re_pc[t] = "get" /\ re_lock = t
        /\ IF MapHas(re_cache, re_key[t])
           THEN /\ re_ret' = [re_ret EXCEPT ![t] = Some(MapGet(re_cache, re_key[t]))]
                /\ re_calls' = [re_calls EXCEPT ![t] = @ + 1]
                /\ re_pc' = [re_pc EXCEPT ![t] = "idle"]
                /\ re_lock' = 0
           ELSE /\ re_pc' = [re_pc EXCEPT ![t] = "build"]
                /\ UNCHANGED <<re_ret, re_calls, re_lock>>
        /\ UNCHANGED <<re_cache, re_key, re_compiled>>
        /\ RegexFrame

\* the miss: build, then return None or insert and return the clone; the
\* guard is dropped on either return
RegexBuild ==
    \E t \in Threads :
        /\ re_pc[t] = "build" /\ re_lock = t
        /\ re_compiled' = [re_compiled EXCEPT ![re_key[t]] = @ + 1]
        /\ re_cache' = IF BuildRegex(re_key[t]) = None THEN re_cache
                       ELSE MapInsert(re_cache, re_key[t], BuildRegex(re_key[t])[1])
        /\ re_ret' = [re_ret EXCEPT ![t] = BuildRegex(re_key[t])]
        /\ re_calls' = [re_calls EXCEPT ![t] = @ + 1]
        /\ re_pc' = [re_pc EXCEPT ![t] = "idle"]
        /\ re_lock' = 0
        /\ UNCHANGED re_key
        /\ RegexFrame

NextRegex == RegexCall \/ RegexLock \/ RegexGet \/ RegexBuild

SpecRegex == InitRegex /\ [][NextRegex]_vars

\* C32: for every (pattern, case-sensitivity) key at most one regex
\* compilation is performed, over any sequence or interleaving of
\* get_cached_regex calls that request it.
C32_CompiledAtMostOnce == \A key \in RegexKeys : re_compiled[key] <= 1

\* No input line matches the pattern the options select.
NoLineMatches ==
    /\ get_agent_regex(agent_opts).valid
    /\ \A i \in 1..Len(agent_in) :
           ~captures(get_agent_regex(agent_opts), get_line_text(agent_in[i]),
                     agent_opts.case_sensitive).matched

\* C33: when no line matches the agent pattern, recognize_agents leaves every
\* line unchanged (count, order, agent, flat text, syllables), whatever agent
\* the lines carried before the call.
C33_NoMatchLeavesLines ==
    (agent_status = "returned" /\ NoLineMatches) => agent_lines = agent_in

WithoutWhitespace(text) == SelectSeq(text, LAMBDA c : ~is_whitespace(c))

\* The lyric text of input line i after its marker, inter-syllable spaces
\* left out.
LyricAfterMarker(i) ==
    WithoutWhitespace(DropFirst(get_line_text(agent_in[i]), MarkerOf(i).full_len))

StripsInlineMarker(i) ==
    /\ agent_opts.enabled /\ agent_opts.custom_pattern = None
    /\ IsInlineMarker(i) /\ agent_in[i].main_syllables # <<>>

\* C34: when an inline marker is stripped from a line that has syllables,
\* the call returns and the concatenated text of the syllables left equals
\* the line's remaining lyric text, inter-syllable spaces ignored: no lyric
\* character is lost, also when the line has flat text and syllables with
\* ends_with_space set.
C34_MarkerStrippedFromSyllables ==
    (agent_status # "called" /\ \E i \in 1..Len(agent_in) : StripsInlineMarker(i))
    => /\ agent_status = "returned"
       /\ \A i \in 1..Len(agent_in) :
              StripsInlineMarker(i) =>
                  WithoutWhitespace(SyllableText(agent_lines[OutPos(i)].main_syllables))
                      = LyricAfterMarker(i)

\* At most one syllable, non-blank flat text and a positive duration.
MayBeSplit(line) ==
    /\ Len(line.main_syllables) <= 1
    /\ line.line_text # None /\ ~AllWhitespace(line.line_text[1])
    /\ line.end_ms > line.start_ms

\* C35: apply_auto_word_splitting changes only the main syllable list of
\* lines that have at most one syllable, non-blank flat text and
\* end_ms > start_ms; every other line, and every other field of a split
\* line, is left unchanged.
C35_SplitChangesOnlySyllables ==
    split_done =>
        /\ Len(split_lines) = Len(split_in)
        /\ \A i \in 1..Len(split_in) :
               /\ [split_lines[i] EXCEPT !.main_syllables = split_in[i].main_syllables]
                      = split_in[i]
               /\ ~MayBeSplit(split_in[i]) => split_lines[i] = split_in[i]

C35_Witness ==
    /\ split_done /\ Len(split_in) = 2
    /\ split_lines[2] # split_in[2]
    /\ split_in[1].line_text # None /\ ~AllWhitespace(split_in[1].line_text[1])
    /\ split_in[1].end_ms <= split_in[1].start_ms

\* C36: while parse_ttml runs, paragraph context implies that the line-build
\* buffer exists, and outside paragraph context the span stack is empty, so
\* no span end finds the paragraph's buffer missing.
C36_ParagraphContextHasBuffer ==
    (parse_result = NoResult /\ ~parser.err) =>
        /\ parser.in_p => parser.current_p_element_data # None
        /\ ~parser.in_p => parser.span_stack = <<>>

\* a paragraph was closed while one of its spans was still open
C36_Witness ==
    /\ parse_result = NoResult /\ ~parser.err /\ parse_pos >= 1
    /\ parse_doc[parse_pos].type = "End" /\ parse_doc[parse_pos].name = "p"
    /\ ~parser.in_p /\ parser.lines # <<>>
    /\ Inside(parse_doc, parse_pos + 1, "span")

\* the syllables of a returned line, main and background
LineSyllables(line) ==
    line.main_syllables
    \o (IF line.background_section = None THEN <<>>
        ELSE line.background_section[1].syllables)

WellTimed(syl) ==
    /\ syl.end_ms >= syl.start_ms
    /\ syl.duration_ms = Some(syl.end_ms - syl.start_ms)

OutputsOf(i) ==
    SubSeq(chain_result.lines, OutputOffset(parsed_lines, i) + 1,
           OutputOffset(parsed_lines, i) + OutputCount(parsed_lines[i]))

\* C38: every line parse_ttml_for_amll_player returns has at least one word:
\* a parsed line without main syllables gives no main line, a background
\* section without syllables gives no background line, and the main line of
\* a parsed line stands before its background line.
C38_OutputLinesHaveWords ==
    (stage = "done" /\ ChainOk) =>
        /\ \A n \in 1..Len(chain_result.lines) : Len(chain_result.lines[n].words) >= 1
        /\ Len(chain_result.lines) = OutputOffset(parsed_lines, Len(parsed_lines) + 1)
        /\ \A i \in 1..Len(parsed_lines) :
               LET out == OutputsOf(i)
                   rust_line == parsed_lines[i]
               IN  /\ rust_line.main_syllables = <<>>
                      => \A k \in 1..Len(out) : out[k].is_bg
                   /\ ~HasBackgroundOutput(rust_line)
                      => \A k \in 1..Len(out) : ~out[k].is_bg
                   /\ Len(out) = 2 => (~out[1].is_bg /\ out[2].is_bg)
                   /\ rust_line.main_syllables # <<>>
                      => /\ ~out[1].is_bg
                         /\ Len(out[1].words) = Len(rust_line.main_syllables)

\* a parsed line with a background section and no main syllable was mapped
C38_Witness ==
    /\ stage = "done" /\ ChainOk
    /\ \E i \in 1..Len(parsed_lines) :
           /\ parsed_lines[i].main_syllables = <<>>
           /\ Len(OutputsOf(i)) = 1 /\ OutputsOf(i)[1].is_bg

\* a line with a main line and a background line was mapped
C38_BothMapped ==
    /\ stage = "done" /\ ChainOk
    /\ \E i \in 1..Len(parsed_lines) : Len(OutputsOf(i)) = 2

(***************************************************************************)
(* 10. AMLLWebSocketServer: close, reopen, boardcast_message and the       *)
(*     accept_conn tasks                                                   *)
(***************************************************************************)
\* What read_stream.next() yields first: a text that is InitializeV2, another
\* text, a binary message that decodes, one that does not, a control
\* message, or nothing (the stream ended or failed).
FirstMessages == {"InitializeV2", "text", "binary", "undecodable", "ping", "none"}

Emitted(event, a) == \E k \in 1..Len(srv_events) : srv_events[k] = <<event, a>>

InitServer ==
    /\ TimeIdle /\ SplitIdle /\ StripIdle /\ AgentIdle /\ ParseIdle
    /\ CacheIdle /\ WsIdle /\ RegexIdle /\ ServerIdle

ServerFrame ==
    UNCHANGED <<timeVars, splitVars, stripVars, agentVars, parseVars, cacheVars, wsVars,
                regexVars>>

\* reopen(addr, channel): the old listener is aborted; a listener is spawned
\* unless addr is empty.  It takes &mut self, as close does, so it does not
\* run while close holds the table.
Reopen ==
    \E addr_is_empty \in BOOLEAN :
        /\ ~srv_closing
        /\ srv_handle' = ~addr_is_empty
        /\ srv_closed' = FALSE
        /\ UNCHANGED <<srv_conns, srv_closing, srv_task, srv_proto, srv_events>>
        /\ ServerFrame

\* listener.accept() in the listener task: accept_conn is spawned, detached
Accept ==
    \E a \in Addrs :
        /\ srv_handle /\ srv_task[a] = "none"
        /\ srv_task' = [srv_task EXCEPT ![a] = "handshake"]
        /\ UNCHANGED <<srv_handle, srv_conns, srv_closing, srv_closed, srv_proto, srv_events>>
        /\ ServerFrame

\* accept_async(stream).await? and the connected event
Handshake ==
    \E a \in Addrs, ok \in BOOLEAN :
        /\ srv_task[a] = "handshake"
        /\ IF ok
           THEN /\ srv_events' = Append(srv_events, <<"connected", a>>)
                /\ srv_task' = [srv_task EXCEPT ![a] = "first"]
           ELSE /\ srv_task' = [srv_task EXCEPT ![a] = "done"]
                /\ UNCHANGED srv_events
        /\ UNCHANGED <<srv_handle, srv_conns, srv_closing, srv_closed, srv_proto>>
        /\ ServerFrame

\* the first message decides the protocol, returns, or leaves it Unknown
FirstMessage ==
    \E a \in Addrs, first \in FirstMessages :
        /\ srv_task[a] = "first"
        /\ srv_proto' = [srv_proto EXCEPT ![a] =
               CASE first = "InitializeV2" -> "HybridV2"
                 [] first = "binary" -> "BinaryV1"
                 [] OTHER -> "Unknown"]
        /\ srv_task' = [srv_task EXCEPT ![a] =
               CASE first \in {"InitializeV2", "binary"} -> "insert"
                 [] first \in {"text", "undecodable"} -> "done"
                 [] first = "ping" -> "loop"
                 [] OTHER -> "emit"]
        /\ UNCHANGED <<srv_handle, srv_conns, srv_closing, srv_closed, srv_events>>
        /\ ServerFrame

\* conns.write().await.insert(addr, ..): waits while close holds the table
Insert ==
    \E a \in Addrs :
        /\ srv_task[a] = "insert" /\ ~srv_closing
        /\ srv_conns' = {c \in srv_conns : c[1] # a} \cup {<<a, srv_proto[a]>>}
        /\ srv_task' = [srv_task EXCEPT ![a] = "loop"]
        /\ UNCHANGED <<srv_handle, srv_closing, srv_closed, srv_proto, srv_events>>
        /\ ServerFrame

\* the while loop ends: the stream ended or failed, or a message of a client
\* in the table was not processed.  (A processed message changes nothing
\* of the server's state.)
LoopExit ==
    \E a \in Addrs :
        /\ srv_task[a] = "loop"
        /\ srv_task' = [srv_task EXCEPT ![a] = "emit"]
        /\ UNCHANGED <<srv_handle, srv_conns, srv_closing, srv_closed, srv_proto, srv_events>>
        /\ ServerFrame

\* app.emit("on-ws-protocol-client-disconnected", ..)
EmitDisconnected ==
    \E a \in Addrs :
        /\ srv_task[a] = "emit"
        /\ srv_events' = Append(srv_events, <<"disconnected", a>>)
        /\ srv_task' = [srv_task EXCEPT ![a] = "remove"]
        /\ UNCHANGED <<srv_handle, srv_conns, srv_closing, srv_closed, srv_proto>>
        /\ ServerFrame

\* conns.write().await.remove(&addr)
Remove ==
    \E a \in Addrs :
        /\ srv_task[a] = "remove" /\ ~srv_closing
        /\ srv_conns' = {c \in srv_conns : c[1] # a}
        /\ srv_task' = [srv_task EXCEPT ![a] = "done"]
        /\ UNCHANGED <<srv_handle, srv_closing, srv_closed, srv_proto, srv_events>>
        /\ ServerFrame

\* close(): the listener is aborted and the write lock of the table taken;
\* the lock is held over the awaits that close the sinks
CloseBegin ==
    /\ ~srv_closing
    /\ srv_handle' = FALSE
    /\ srv_closing' = TRUE
    /\ UNCHANGED <<srv_conns, srv_closed, srv_task, srv_proto, srv_events>>
    /\ ServerFrame

\* conns.clear(), the guard dropped, close() returns
CloseEnd ==
    /\ srv_closing
    /\ srv_conns' = {}
    /\ srv_closing' = FALSE
    /\ srv_closed' = TRUE
    /\ UNCHANGED <<srv_handle, srv_task, srv_proto, srv_events>>
    /\ ServerFrame

\* boardcast_message(data): the clients the send fails for leave the table
Broadcast ==
    \E failed \in SUBSET { c[1] : c \in srv_conns } :
        /\ ~srv_closing /\ srv_conns # {}
        /\ srv_conns' = {c \in srv_conns : c[1] \notin failed}
        /\ UNCHANGED <<srv_handle, srv_closing, srv_closed, srv_task, srv_proto, srv_events>>
        /\ ServerFrame

NextServer ==
    \/ Reopen \/ Accept \/ CloseBegin \/ CloseEnd \/ Broadcast
    \/ Handshake \/ FirstMessage \/ Insert \/ LoopExit \/ EmitDisconnected \/ Remove

SpecServer == InitServer /\ [][NextServer]_vars

\* Every spawned task is scheduled, and close() runs to its end.
SpecServerFair ==
    /\ SpecServer
    /\ WF_vars(Handshake) /\ WF_vars(FirstMessage) /\ WF_vars(LoopExit)
    /\ WF_vars(EmitDisconnected) /\ WF_vars(CloseEnd)
    /\ SF_vars(Insert) /\ SF_vars(Remove)

\* the task of client a reads no more from its connection
ConnectionEnded(a) == srv_task[a] \in {"emit", "remove", "done"}

\* C39: for every client the connected event was emitted for, the
\* disconnected event is eventually emitted once its connection ends,
\* whatever the first message was.
C39_ConnectedLeadsToDisconnected ==
    \A a \in Addrs :
        (Emitted("connected", a) /\ ConnectionEnded(a)) ~> Emitted("disconnected", a)

\* C40: after close() has completed, the connection table is empty and stays
\* empty until reopen() is called, under every interleaving with the
\* accept_conn tasks spawned before the close.
C40_TableEmptyAfterClose == srv_closed => srv_conns = {}

====
